---- MODULE Spec2Model ----
(***************************************************************************)
(* A model of the dependency resolver of japm (src/src/commands.rs): the   *)
(* operations install_packages, remove_packages, update_packages and       *)
(* update_all_packages, computed over a package finder (the lookup         *)
(* catalogue) and a package database (the store of installed packages),   *)
(* and of the pipeline of main (src/src/main.rs) that builds the resolved  *)
(* actions on a thread pool and then commits them to the store.            *)
(*                                                                         *)
(* Strings that the code only compares for equality (package names) are    *)
(* TLA+ strings.  Version strings are parsed by the code, so they are      *)
(* sequences of characters and Version::parse is modelled by what it does. *)
(***************************************************************************)
EXTENDS Integers, Sequences, FiniteSets, TLC

\* ------------------------------------------------------------------------
\* Bounds of the model
\* ------------------------------------------------------------------------

\* Longest list of package names given to one command.
MaxBatch == 2

\* Largest number of build threads given on the command line.
MaxThreads == 2

\* The package names of the model.  A catalogue or store dependency list
\* only names earlier packages of NameOrder, which makes every dependency
\* graph of the model acyclic; the code never orders names, so every acyclic
\* graph over three names is one of these up to renaming.
NameOrder == <<"a", "b", "c">>

Names == {NameOrder[i] : i \in 1..Len(NameOrder)}

NameIndex(n) == CHOOSE i \in 1..Len(NameOrder) : NameOrder[i] = n

\* ------------------------------------------------------------------------
\* Generic helpers on sequences
\* ------------------------------------------------------------------------

Range(s) == {s[i] : i \in 1..Len(s)}

Contains(s, x) == \E i \in 1..Len(s) : s[i] = x

\* Index of the first occurrence of x in s, 0 when absent.
IndexOf(s, x) ==
    IF Contains(s, x) THEN CHOOSE i \in 1..Len(s) : s[i] = x /\ \A j \in 1..(i - 1) : s[j] # x
    ELSE 0

\* All sequences without repetition over the set S, of length at most n.
RECURSIVE DistinctSeqs(_, _)
DistinctSeqs(S, n) ==
    IF n = 0 THEN {<<>>}
    ELSE LET shorter == DistinctSeqs(S, n - 1)
             longest == {t \in shorter : Len(t) = n - 1}
         IN  shorter \cup UNION {{Append(s, x) : x \in S \ Range(s)} : s \in longest}

\* All sequences over the set S of length at most n.
SeqsUpTo(S, n) == UNION {[1..k -> S] : k \in 0..n}

\* ------------------------------------------------------------------------
\* Versions: semver::Version::parse and Ord, on strings of characters
\* ------------------------------------------------------------------------

Digits == <<"0", "1", "2", "3", "4", "5", "6", "7", "8", "9">>

IsDigit(c) == \E d \in 1..10 : Digits[d] = c

DigitValue(c) == (CHOOSE d \in 1..10 : Digits[d] = c) - 1

\* The dot-separated components of a character string.
RECURSIVE SplitDots(_, _, _)
SplitDots(s, i, current) ==
    IF i > Len(s) THEN <<current>>
    ELSE IF s[i] = "." THEN <<current>> \o SplitDots(s, i + 1, <<>>)
    ELSE SplitDots(s, i + 1, Append(current, s[i]))

\* A numeric identifier: non-empty, digits only, no leading zero.
IsNumericIdentifier(part) ==
    /\ Len(part) > 0
    /\ \A i \in 1..Len(part) : IsDigit(part[i])
    /\ (Len(part) > 1 => part[1] # "0")

RECURSIVE DecimalValue(_, _, _)
\* Mutant of DecimalValue: only the first digit of the component counts.
DecimalValueFirstDigit(part, i, acc) == DigitValue(part[1])

DecimalValue(part, i, acc) ==
    IF i > Len(part) THEN acc
    ELSE DecimalValue(part, i + 1, acc * 10 + DigitValue(part[i]))

\* Version::parse for strings made of digits and dots (no pre-release or
\* build part): Ok with <<major, minor, patch>>, or Err.
VersionParse(s) ==
    LET parts == SplitDots(s, 1, <<>>)
    IN  IF Len(parts) = 3 /\ \A k \in 1..3 : IsNumericIdentifier(parts[k])
        THEN [ok |-> TRUE, version |-> [k \in 1..3 |-> DecimalValue(parts[k], 1, 0)]]
        ELSE [ok |-> FALSE, version |-> <<>>]

\* Mutant of VersionGreater: an equal version counts as greater.
VersionGreaterOrEqual(a, b) ==
    \/ a[1] > b[1]
    \/ a[1] = b[1] /\ a[2] > b[2]
    \/ a[1] = b[1] /\ a[2] = b[2] /\ a[3] >= b[3]

\* Version::cmp(a, b) == Ordering::Greater
VersionGreater(a, b) ==
    \/ a[1] > b[1]
    \/ a[1] = b[1] /\ a[2] > b[2]
    \/ a[1] = b[1] /\ a[2] = b[2] /\ a[3] > b[3]

V_0_0_2 == <<"0", ".", "0", ".", "2">>

V_0_0_10 == <<"0", ".", "0", ".", "1", "0">>

\* Version::parse of the two version strings above, evaluated once.
ParsedVersions == [s \in {V_0_0_2, V_0_0_10} |-> VersionParse(s)]

\* Version::parse(s): read from ParsedVersions where s is one of its strings.
ParsedVersion(s) ==
    IF s \in DOMAIN ParsedVersions THEN ParsedVersions[s] ELSE VersionParse(s)

\* ------------------------------------------------------------------------
\* Data model: packages, actions, the insertion-ordered set
\* ------------------------------------------------------------------------

\* Option<T>: None is the empty sequence, Some(x) the one-element sequence.
None == <<>>

Some(x) == <<x>>

\* RemotePackage and LocalPackage, with the fields the resolver reads or
\* compares: package_data.name, package_data.version and dependencies, and
\* package_files, which is empty in every package the lookup returns
\* (serde skip_deserializing) and is written by the build of an Install.
Package(name, version, dependencies) ==
    [name |-> name, version |-> version, dependencies |-> dependencies,
     package_files |-> <<>>]

\* enum Action { Install(RemotePackage), Remove(LocalPackage) }
Install(package) == [kind |-> "Install", package |-> package]

Remove(package) == [kind |-> "Remove", package |-> package]

\* LinkedHashSet<T> = LinkedHashMap<T, ()>, kept as the sequence of its keys
\* in iteration order.  LinkedHashMap::insert of a key that is already
\* present replaces the value, detaches the entry and attaches it again at
\* the back of the list; a new key is attached at the back.
LinkedHashSetInsert(set, key) ==
    IF Contains(set, key)
    THEN SelectSeq(set, LAMBDA k : k # key) \o <<key>>
    ELSE Append(set, key)

\* Extend::extend: insert every key of items, in the order of items.
RECURSIVE LinkedHashSetExtend(_, _)
LinkedHashSetExtend(set, items) ==
    IF items = <<>> THEN set
    ELSE LinkedHashSetExtend(LinkedHashSetInsert(set, Head(items)), Tail(items))

\* ------------------------------------------------------------------------
\* State
\* ------------------------------------------------------------------------

VARIABLES
    finder,     \* the lookup catalogue: name -> Option<RemotePackage>
    db,         \* the store: the installed LocalPackage records, in row order
    command,    \* the last command given to the resolver
    result,     \* what that command returned
    calls,      \* the finder and store calls that command made, in order
    phase,      \* where main is: "command", "build", "commit" or "exited"
    threads,    \* the size of the thread pool of build_actions
    building,   \* the clone of the action list that build_actions consumes
    tasks,      \* the position of the closure queued for each action
    build_error,    \* the shared Arc<Mutex<Option<BuildError>>>
    files,      \* the real paths that builds have moved into place
    commit_index,   \* the index of the action commit_actions is at
    logged_error,   \* the error main logs before exit(-1)
    exit_code,  \* the exit code of the process, once it has exited
    db_at_start,    \* history: the store before the command (read by properties)
    progress,   \* FrontendProgress: the ActionsBuild and ActionsCommit groups
    left,       \* the first of two actions that are compared
    right,      \* the second of them
    equal,      \* what Action::eq(left, right) returned, once called
    stack,      \* the resolver calls in progress, outermost first
    resolution, \* "idle", "resolving" or "returned": the resolver call by call
    real,       \* the real filesystem: the kind of every path under the root
    staging,    \* the install directory: the kind of every path under it
    self,       \* the action whose build is followed step by step
    at,         \* the step of that build and the item of the step that is next
    new_dirs,   \* what find_package_files returned: (staged, translated) pairs
    ran,        \* history: the commands run, the moves and deletions made
    build_result,   \* what Action::build returned, once it has
    real_before \* history: the real filesystem before the first build

pipeline_vars ==
    <<phase, threads, building, tasks, build_error, files, commit_index,
      logged_error, exit_code, db_at_start, progress>>

equality_vars == <<left, right, equal>>

\* The variables that the resolver and the pipeline of main never touch.
stepwise_vars == <<stack, resolution>>

build_vars == <<real, staging, self, at, new_dirs, ran, build_result, real_before>>

detail_vars == <<equality_vars, stepwise_vars, build_vars>>

vars == <<finder, db, command, result, calls, phase, threads, building, tasks,
          build_error, files, commit_index, logged_error, exit_code, db_at_start,
          progress, detail_vars>>

\* PackageFinder::find_package
find_package(package_name) == finder[package_name]

\* PackagesDb::get_package: the first record with that name.
get_package(package_name) ==
    LET matching == SelectSeq(db, LAMBDA package : package.name = package_name)
    IN  IF matching = <<>> THEN None ELSE Some(Head(matching))

\* PackagesDb::get_all_packages
get_all_packages == db

\* Mutant of get_depending_packages: only the first entry of a dependency
\* list is compared with the name.
get_depending_packages_first_entry(package_name) ==
    SelectSeq(db, LAMBDA package :
                      /\ package.dependencies # <<>>
                      /\ package.dependencies[1] = package_name)

\* PackagesDb::get_depending_packages: the records whose dependency list
\* contains the name, in row order.
get_depending_packages(package_name) ==
    SelectSeq(get_all_packages, LAMBDA package : Contains(package.dependencies, package_name))

FindCall(name) == [fn |-> "find_package", arg |-> name]

GetCall(name) == [fn |-> "get_package", arg |-> name]

GetAllCall == [fn |-> "get_all_packages", arg |-> ""]

GetDependingCall(name) == [fn |-> "get_depending_packages", arg |-> name]

\* Result<_, _> of a resolver function, with the calls it made.
Ok(actions, made) == [ok |-> TRUE, actions |-> actions, error |-> <<>>, calls |-> made]

Err(error, made) == [ok |-> FALSE, actions |-> <<>>, error |-> error, calls |-> made]

PackageNotFound(name) == <<"PackageNotFound", name>>

VersionParseError == <<"VersionParse">>

PackageNotInstalled(name) == <<"PackageNotInstalled", name>>

DependencyBreak(name, depending) == <<"DependencyBreak", name, depending>>

\* ------------------------------------------------------------------------
\* The resolver (src/src/commands.rs)
\* ------------------------------------------------------------------------

ReinstallOptions == {"Update", "ForceReinstall", "Ignore"}

RECURSIVE install_package(_, _)
RECURSIVE install_dependencies(_, _, _, _, _)

\* The loop of install_package over remote_package.dependencies, from the
\* dependency at index i on: the result of each dependency is merged into
\* actions, the first error is returned at once; after the loop
\* Install(remote_package) is inserted.
\* Mutant of install_dependencies: the dependencies are resolved with Ignore.
install_dependencies_with_ignore(remote_package, i, reinstall_options, actions, made) ==
    IF i > Len(remote_package.dependencies)
    THEN Ok(LinkedHashSetInsert(actions, Install(remote_package)), made)
    ELSE LET sub == install_package(remote_package.dependencies[i], "Ignore")
         IN  IF ~sub.ok THEN Err(sub.error, made \o sub.calls)
             ELSE install_dependencies(remote_package, i + 1, reinstall_options,
                                       LinkedHashSetExtend(actions, sub.actions),
                                       made \o sub.calls)

install_dependencies(remote_package, i, reinstall_options, actions, made) ==
    IF i > Len(remote_package.dependencies)
    THEN Ok(LinkedHashSetInsert(actions, Install(remote_package)), made)
    ELSE LET sub == install_package(remote_package.dependencies[i], reinstall_options)
         IN  IF ~sub.ok THEN Err(sub.error, made \o sub.calls)
             ELSE install_dependencies(remote_package, i + 1, reinstall_options,
                                       LinkedHashSetExtend(actions, sub.actions),
                                       made \o sub.calls)

\* Mutant of existing_package_decision: Ignore falls through to the
\* reinstall of the package.
decision_ignore_reinstalls(remote_package, local_package, reinstall_options) ==
    LET remote_version == VersionParse(remote_package.version)
        local_version == VersionParse(local_package.version)
    IN  CASE reinstall_options = "ForceReinstall" -> "reinstall"
          [] reinstall_options = "Update" ->
                IF ~remote_version.ok THEN "error"
                ELSE IF ~local_version.ok THEN "error"
                ELSE IF VersionGreater(remote_version.version, local_version.version)
                THEN "reinstall"
                ELSE "skip"
          [] reinstall_options = "Ignore" -> "reinstall"

\* Mutant of existing_package_decision: ForceReinstall compares the
\* versions as Update does.
decision_force_compares(remote_package, local_package, reinstall_options) ==
    LET remote_version == VersionParse(remote_package.version)
        local_version == VersionParse(local_package.version)
    IN  CASE reinstall_options \in {"ForceReinstall", "Update"} ->
                IF ~remote_version.ok THEN "error"
                ELSE IF ~local_version.ok THEN "error"
                ELSE IF VersionGreater(remote_version.version, local_version.version)
                THEN "reinstall"
                ELSE "skip"
          [] reinstall_options = "Ignore" -> "skip"

\* The match on reinstall_options for a package that is already installed:
\* "reinstall" (Remove(local_package) is inserted and resolution goes on),
\* "skip" (the empty set is returned) or "error" (a version does not parse).
existing_package_decision(remote_package, local_package, reinstall_options) ==
    LET remote_version == ParsedVersion(remote_package.version)
        local_version == ParsedVersion(local_package.version)
    IN  CASE reinstall_options = "ForceReinstall" -> "reinstall"
          [] reinstall_options = "Update" ->
                IF ~remote_version.ok THEN "error"
                ELSE IF ~local_version.ok THEN "error"
                ELSE IF VersionGreater(remote_version.version, local_version.version)
                THEN "reinstall"
                ELSE "skip"
          [] reinstall_options = "Ignore" -> "skip"

\* Mutant of install_package: a name the lookup does not know is skipped
\* with an empty result.
install_package_skips_unknown(package_name, reinstall_options) ==
    LET found == find_package(package_name)
        made1 == <<FindCall(package_name)>>
    IN  IF found = None THEN Ok(<<>>, made1)
        ELSE
        LET remote_package == found[1]
            local == get_package(remote_package.name)
            made2 == Append(made1, GetCall(remote_package.name))
        IN  IF local = None
            THEN install_dependencies(remote_package, 1, reinstall_options, <<>>, made2)
            ELSE
            LET local_package == local[1]
                decision == existing_package_decision(remote_package, local_package,
                                                      reinstall_options)
            IN  CASE decision = "reinstall" ->
                        install_dependencies(remote_package, 1, reinstall_options,
                                             <<Remove(local_package)>>, made2)
                  [] decision = "skip" -> Ok(<<>>, made2)
                  [] decision = "error" -> Err(VersionParseError, made2)

install_package(package_name, reinstall_options) ==
    LET found == find_package(package_name)
        made1 == <<FindCall(package_name)>>
    IN  IF found = None THEN Err(PackageNotFound(package_name), made1)
        ELSE
        LET remote_package == found[1]
            local == get_package(remote_package.name)
            made2 == Append(made1, GetCall(remote_package.name))
        IN  IF local = None
            THEN install_dependencies(remote_package, 1, reinstall_options, <<>>, made2)
            ELSE
            LET local_package == local[1]
                decision == existing_package_decision(remote_package, local_package,
                                                      reinstall_options)
            IN  CASE decision = "reinstall" ->
                        install_dependencies(remote_package, 1, reinstall_options,
                                             <<Remove(local_package)>>, made2)
                  [] decision = "skip" -> Ok(<<>>, made2)
                  [] decision = "error" -> Err(VersionParseError, made2)

\* The loop of install_packages over the requested names, from index i on.
RECURSIVE install_packages_from(_, _, _, _, _)
install_packages_from(packages, i, reinstall_options, actions, made) ==
    IF i > Len(packages) THEN Ok(actions, made)
    ELSE LET sub == install_package(packages[i], reinstall_options)
         IN  IF ~sub.ok THEN Err(sub.error, made \o sub.calls)
             ELSE install_packages_from(packages, i + 1, reinstall_options,
                                        LinkedHashSetExtend(actions, sub.actions),
                                        made \o sub.calls)

install_packages(packages, reinstall_options) ==
    install_packages_from(packages, 1, reinstall_options, <<>>, <<>>)

\* get_depending_recursive: the insertion-ordered set of the packages that
\* depend on package_name, down to max_level levels (never when max_level
\* is negative).  Returns [set, calls].
RECURSIVE get_depending_recursive(_, _, _)
RECURSIVE get_depending_loop(_, _, _, _, _, _)

\* Mutant of get_depending_loop: the results are appended, not inserted.
get_depending_loop_appends(depending, i, level, max_level, set, made) ==
    IF i > Len(depending) THEN [set |-> set, calls |-> made]
    ELSE LET sub == get_depending_recursive(depending[i].name, level + 1, max_level)
         IN  get_depending_loop(depending, i + 1, level, max_level,
                                Append(set \o sub.set, depending[i]),
                                made \o sub.calls)

get_depending_loop(depending, i, level, max_level, set, made) ==
    IF i > Len(depending) THEN [set |-> set, calls |-> made]
    ELSE LET sub == get_depending_recursive(depending[i].name, level + 1, max_level)
         IN  get_depending_loop(depending, i + 1, level, max_level,
                                LinkedHashSetInsert(LinkedHashSetExtend(set, sub.set),
                                                    depending[i]),
                                made \o sub.calls)

get_depending_recursive(package_name, level, max_level) ==
    IF level = max_level THEN [set |-> <<>>, calls |-> <<>>]
    ELSE get_depending_loop(get_depending_packages(package_name), 1, level, max_level,
                            <<>>, <<GetDependingCall(package_name)>>)

\* Mutant of get_depending: the depth cap is not passed on.
get_depending_uncapped(package_name, max_level) ==
    get_depending_recursive(package_name, 0, -1)

\* Mutant of get_depending: one level only, whatever max_level is.
get_depending_direct(package_name, max_level) ==
    get_depending_recursive(package_name, 0, 1)

get_depending(package_name, max_level) ==
    get_depending_recursive(package_name, 0, max_level)

RECURSIVE remove_package(_, _)
RECURSIVE remove_depending(_, _, _, _, _, _)

\* The loop of remove_package over depending_packages, from index i on;
\* after the loop Remove(db_package) is inserted.
remove_depending(db_package, depending_packages, i, recursive, actions, made) ==
    IF i > Len(depending_packages)
    THEN Ok(LinkedHashSetInsert(actions, Remove(db_package)), made)
    ELSE LET sub == remove_package(depending_packages[i].name, recursive)
         IN  IF ~sub.ok THEN Err(sub.error, made \o sub.calls)
             ELSE remove_depending(db_package, depending_packages, i + 1, recursive,
                                   LinkedHashSetExtend(actions, sub.actions),
                                   made \o sub.calls)

\* Mutant of remove_package: a name without a record is skipped with an
\* empty result.
remove_package_skips_missing(package_name, recursive) ==
    LET local == get_package(package_name)
        made1 == <<GetCall(package_name)>>
    IN  IF local = None THEN Ok(<<>>, made1)
        ELSE
        LET db_package == local[1]
            depending == get_depending(package_name, 1)
            depending_packages == depending.set
            made2 == made1 \o depending.calls
        IN  IF depending_packages # <<>> /\ ~recursive
            THEN Err(DependencyBreak(package_name,
                                     [k \in 1..Len(depending_packages) |->
                                         depending_packages[k].name]),
                     made2)
            ELSE remove_depending(db_package, depending_packages, 1, recursive, <<>>, made2)

\* Mutant of remove_package: without recursion the dependents are not
\* looked at.
remove_package_overlooks_dependents(package_name, recursive) ==
    LET local == get_package(package_name)
        made1 == <<GetCall(package_name)>>
    IN  IF local = None THEN Err(PackageNotInstalled(package_name), made1)
        ELSE
        LET db_package == local[1]
            depending == get_depending(package_name, 1)
            depending_packages == IF recursive THEN depending.set ELSE <<>>
            made2 == made1 \o depending.calls
        IN  remove_depending(db_package, depending_packages, 1, recursive, <<>>, made2)

remove_package(package_name, recursive) ==
    LET local == get_package(package_name)
        made1 == <<GetCall(package_name)>>
    IN  IF local = None THEN Err(PackageNotInstalled(package_name), made1)
        ELSE
        LET db_package == local[1]
            depending == get_depending(package_name, 1)
            depending_packages == depending.set
            made2 == made1 \o depending.calls
        IN  IF depending_packages # <<>> /\ ~recursive
            THEN Err(DependencyBreak(package_name,
                                     [k \in 1..Len(depending_packages) |->
                                         depending_packages[k].name]),
                     made2)
            ELSE remove_depending(db_package, depending_packages, 1, recursive, <<>>, made2)

\* The loop of remove_packages over the requested names, from index i on.
RECURSIVE remove_packages_from(_, _, _, _, _)
remove_packages_from(package_names, i, recursive, actions, made) ==
    IF i > Len(package_names) THEN Ok(actions, made)
    ELSE LET sub == remove_package(package_names[i], recursive)
         IN  IF ~sub.ok THEN Err(sub.error, made \o sub.calls)
             ELSE remove_packages_from(package_names, i + 1, recursive,
                                       LinkedHashSetExtend(actions, sub.actions),
                                       made \o sub.calls)

remove_packages(package_names, recursive) ==
    remove_packages_from(package_names, 1, recursive, <<>>, <<>>)

\* The loop of update_packages over the requested names, from index i on:
\* actions is a plain Vec here, the results are appended.
RECURSIVE update_packages_from(_, _, _, _)
update_packages_from(package_names, i, actions, made) ==
    IF i > Len(package_names) THEN Ok(actions, made)
    ELSE LET depending == get_depending(package_names[i], -1)
             packages_to_update ==
                 Append([k \in 1..Len(depending.set) |-> depending.set[k].name],
                        package_names[i])
             sub == install_packages(packages_to_update, "Update")
         IN  IF ~sub.ok THEN Err(sub.error, made \o depending.calls \o sub.calls)
             ELSE update_packages_from(package_names, i + 1, actions \o sub.actions,
                                       made \o depending.calls \o sub.calls)

update_packages(package_names) == update_packages_from(package_names, 1, <<>>, <<>>)

update_all_packages ==
    LET packages == get_all_packages
        sub == install_packages([k \in 1..Len(packages) |-> packages[k].name], "Update")
    IN  IF sub.ok THEN Ok(sub.actions, <<GetAllCall>> \o sub.calls)
        ELSE Err(sub.error, <<GetAllCall>> \o sub.calls)

\* ------------------------------------------------------------------------
\* The reachable inputs: catalogues and stores
\* ------------------------------------------------------------------------

\* The version every catalogue entry carries, and the versions a store
\* record can carry: an older one (older numerically, later as a string),
\* the same one.
RemoteVersions == {V_0_0_10}

LocalVersions == {V_0_0_2, V_0_0_10}

EarlierNames(n) == {NameOrder[i] : i \in 1..(NameIndex(n) - 1)}

DependencyLists(n) == DistinctSeqs(EarlierNames(n), Len(NameOrder))

\* A catalogue: every name is unknown, or known with its own name, a
\* version and a list of earlier names as dependencies.
Catalogues ==
    {f \in [Names -> {None} \cup {Some(Package(n, v, d)) :
                                      n \in Names, v \in RemoteVersions,
                                      d \in DistinctSeqs(Names, Len(NameOrder))}] :
        \A n \in Names : f[n] # None =>
            /\ f[n][1].name = n
            /\ f[n][1].dependencies \in DependencyLists(n)}

\* The dependency list of the record of n installed from catalogue f; a
\* package the catalogue no longer knows was installed without dependencies.
InstalledDependencies(f, n) == IF f[n] = None THEN <<>> ELSE f[n][1].dependencies

\* A store: at most one record per name, in any row order.
Stores(f) ==
    UNION {{[k \in 1..Len(order) |->
                Package(order[k], versions[order[k]], InstalledDependencies(f, order[k]))] :
              versions \in [Range(order) -> LocalVersions]} :
           order \in DistinctSeqs(Names, Len(NameOrder))}

Batches == SeqsUpTo(Names, MaxBatch)

NoCommand ==
    [type |-> "none", packages |-> <<>>, reinstall_options |-> "Ignore",
     recursive |-> FALSE]

Returned(r) == [ok |-> r.ok, actions |-> r.actions, error |-> r.error]

\* ------------------------------------------------------------------------
\* Specification
\* ------------------------------------------------------------------------

\* ProgressGroup::new
ProgressGroup == [completed |-> 0, target |-> 0]

\* Progress::increment_target
increment_target(groups, progress_type, amount) ==
    [groups EXCEPT ![progress_type].target = @ + amount]

\* Mutant of increment_completed: the amount is assigned, not added.
increment_completed_assigns(groups, progress_type, amount) ==
    [groups EXCEPT ![progress_type].completed = amount]

\* Progress::increment_completed
increment_completed(groups, progress_type, amount) ==
    [groups EXCEPT ![progress_type].completed = @ + amount]

\* Progress::set_comleted
set_comleted(groups, progress_type) ==
    [groups EXCEPT ![progress_type] = [completed |-> 1, target |-> 1]]

\* The head of build_actions and of commit_actions: an empty list is
\* reported complete, otherwise its length is added to the target.
announce(groups, progress_type, actions) ==
    IF actions = <<>> THEN set_comleted(groups, progress_type)
    ELSE increment_target(groups, progress_type, Len(actions))

\* main before its command: nothing resolved, built, committed or logged.
MainAtStart ==
    /\ command = NoCommand
    /\ result = [ok |-> TRUE, actions |-> <<>>, error |-> <<>>]
    /\ calls = <<>>
    /\ phase = "command"
    /\ threads = 0
    /\ building = <<>>
    /\ tasks = <<>>
    /\ build_error = None
    /\ files = {}
    /\ commit_index = 0
    /\ logged_error = <<>>
    /\ exit_code = None
    /\ db_at_start = db
    /\ progress = [ActionsBuild |-> ProgressGroup, ActionsCommit |-> ProgressGroup]

\* No two actions are being compared.
NoComparison == left = None /\ right = None /\ equal = None

\* No stepwise resolution is in progress.
NoResolution == stack = <<>> /\ resolution = "idle"

\* No build is followed step by step.
NoBuild ==
    /\ real = <<>> /\ staging = <<>> /\ self = None /\ at = <<>> /\ new_dirs = <<>>
    /\ ran = <<>> /\ build_result = None /\ real_before = <<>>

NoDetail == NoComparison /\ NoResolution /\ NoBuild

Init ==
    /\ finder \in Catalogues
    /\ db \in Stores(finder)
    /\ MainAtStart
    /\ NoDetail

\* Mutant of store_after_call: get_package takes the rows it returns out of
\* the store.
store_after_call_get_takes_rows(store, call) ==
    IF call.fn = "get_package"
    THEN SelectSeq(store, LAMBDA row : row.name # call.arg)
    ELSE store

\* What a call that the resolver makes leaves of the store: find_package
\* does not reach it, get_package, get_all_packages and
\* get_depending_packages select rows.
store_after_call(store, call) ==
    store

\* The store after the calls of a command, in order.
StoreAfter(store, made) ==
    LET after[k \in 0..Len(made)] ==
            IF k = 0 THEN store ELSE store_after_call(after[k - 1], made[k])
    IN  after[Len(made)]

\* commands::install_packages(packages, package_finder, reinstall_options, db)
InstallPackages ==
    /\ command = NoCommand
    /\ \E packages \in Batches, reinstall_options \in ReinstallOptions :
        LET r == install_packages(packages, reinstall_options)
        IN  /\ command' = [type |-> "install", packages |-> packages,
                           reinstall_options |-> reinstall_options, recursive |-> FALSE]
            /\ result' = Returned(r)
            /\ calls' = r.calls
            /\ db' = StoreAfter(db, calls')
            /\ UNCHANGED <<detail_vars, finder, pipeline_vars>>

\* commands::remove_packages(package_names, recursive, db)
RemovePackages ==
    /\ command = NoCommand
    /\ \E package_names \in Batches, recursive \in BOOLEAN :
        LET r == remove_packages(package_names, recursive)
        IN  /\ command' = [type |-> "remove", packages |-> package_names,
                           reinstall_options |-> "Ignore", recursive |-> recursive]
            /\ result' = Returned(r)
            /\ calls' = r.calls
            /\ db' = StoreAfter(db, calls')
            /\ UNCHANGED <<detail_vars, finder, pipeline_vars>>

\* commands::update_packages(package_names, package_finder, db)
UpdatePackages ==
    /\ command = NoCommand
    /\ \E package_names \in Batches :
        LET r == update_packages(package_names)
        IN  /\ command' = [type |-> "update", packages |-> package_names,
                           reinstall_options |-> "Update", recursive |-> FALSE]
            /\ result' = Returned(r)
            /\ calls' = r.calls
            /\ db' = StoreAfter(db, calls')
            /\ UNCHANGED <<detail_vars, finder, pipeline_vars>>

\* commands::update_all_packages(package_finder, db)
UpdateAllPackages ==
    /\ command = NoCommand
    /\ LET r == update_all_packages
       IN  /\ command' = [type |-> "update_all", packages |-> <<>>,
                          reinstall_options |-> "Update", recursive |-> FALSE]
           /\ result' = Returned(r)
           /\ calls' = r.calls
           /\ db' = StoreAfter(db, calls')
           /\ UNCHANGED <<detail_vars, finder, pipeline_vars>>

Next ==
    \/ InstallPackages
    \/ RemovePackages
    \/ UpdatePackages
    \/ UpdateAllPackages

Spec == Init /\ [][Next]_vars

TypeOK ==
    /\ command.type \in {"none", "install", "remove", "update", "update_all"}
    /\ result.ok \in BOOLEAN

\* ------------------------------------------------------------------------
\* The pipeline of main: build_actions, then commit_actions (src/src/main.rs)
\* ------------------------------------------------------------------------

\* The real path that the install commands of a package stage: one entry
\* per package, named after it, that does not exist on the real filesystem.
RealPath(name) == <<"/", name>>

\* What the environment makes of one build: every command succeeds, a
\* command fails before the files are touched (pre_install, install,
\* pre_remove), or a command fails after they were (post_install,
\* post_remove).
BuildOutcomes == {"ok", "fail_before", "fail_after"}

CommandFail(action) == <<"CommandFail", action.kind, action.package.name>>

\* Action::build on the real filesystem real_files.  Install: the commands
\* of pre_install and install run, the staged entries are moved to their
\* real paths and written to package.package_files, then the commands of
\* post_install run.  Remove: the commands of pre_remove run, the paths of
\* package_files are deleted, then the commands of post_remove run.
build(action, outcome, real_files) ==
    IF outcome = "fail_before"
    THEN [ok |-> FALSE, action |-> action, files |-> real_files]
    ELSE IF action.kind = "Install"
    THEN [ok |-> outcome = "ok",
          action |-> Install([action.package EXCEPT
                                 !.package_files = <<RealPath(action.package.name)>>]),
          files |-> real_files \cup {RealPath(action.package.name)}]
    ELSE [ok |-> outcome = "ok", action |-> action,
          files |-> real_files \ Range(action.package.package_files)]

\* SqlitePackagesDb::add_package: a row made of the fields of the package.
db_add_package(store, package) == Append(store, package)

\* SqlitePackagesDb::remove_package: the rows with that name are deleted.
db_remove_package(store, package_name) ==
    SelectSeq(store, LAMBDA row : row.name # package_name)

\* Mutant of commit: the Remove of a package deletes no row.
commit_remove_deletes_nothing(action, store) ==
    IF action.kind = "Install"
    THEN db_add_package(store, action.package)
    ELSE store

\* Action::commit when the store accepts the statement.
commit(action, store) ==
    IF action.kind = "Install"
    THEN db_add_package(store, action.package)
    ELSE db_remove_package(store, action.package.name)

CommitError(action) ==
    IF action.kind = "Install"
    THEN <<"DatabaseAdd", action.package.name>>
    ELSE <<"DatabaseRemove", action.package.name>>

\* The tasks a worker thread of the pool is running.
Running == {i \in 1..Len(tasks) : tasks[i] \in {"building", "failing"}}

Queued == {i \in 1..Len(tasks) : tasks[i] = "queued"}

\* Mutant of ResolutionFailed: the error is logged and main falls through
\* to exit(0).
ResolutionFailedExitsZero ==
    /\ phase = "command"
    /\ command # NoCommand
    /\ ~result.ok
    /\ logged_error' = <<"command", result.error>>
    /\ exit_code' = Some(0)
    /\ phase' = "exited"
    /\ UNCHANGED <<detail_vars, finder, db, command, result, calls, threads, building, tasks,
                   build_error, files, commit_index, db_at_start, progress>>

\* main, Err(error_message): the command returned an error.
ResolutionFailed ==
    /\ phase = "command"
    /\ command # NoCommand
    /\ ~result.ok
    /\ logged_error' = <<"command", result.error>>
    /\ exit_code' = Some(-1)
    /\ phase' = "exited"
    /\ UNCHANGED <<detail_vars, finder, db, command, result, calls, threads, building, tasks,
                   build_error, files, commit_index, db_at_start, progress>>

\* args.build_threads: not given, or a number of threads.
BuildThreadsArguments == {None} \cup {Some(n) : n \in 1..MaxThreads}

\* The worker count when args.build_threads is not given.
DefaultBuildThreads == 3

\* Option::unwrap_or
unwrap_or(option, default) == IF option = None THEN default ELSE option[1]

\* main, Ok(actions): build_actions(actions.clone(), threads) creates the
\* pool and the empty error slot and queues one closure per action.
BuildActions ==
    /\ phase = "command"
    /\ command # NoCommand
    /\ result.ok
    /\ \E build_threads \in BuildThreadsArguments :
           threads' = unwrap_or(build_threads, DefaultBuildThreads)
    /\ building' = result.actions
    /\ tasks' = [i \in 1..Len(result.actions) |-> "queued"]
    /\ build_error' = None
    /\ progress' = announce(progress, "ActionsBuild", result.actions)
    /\ phase' = "build"
    /\ UNCHANGED <<detail_vars, finder, db, command, result, calls, files, commit_index,
                   logged_error, exit_code, db_at_start>>

\* Mutant of TaskStart: the closure does not look at the slot.
TaskStartAlwaysBuilds ==
    /\ phase = "build"
    /\ Queued # {}
    /\ Cardinality(Running) < threads
    /\ LET i == CHOOSE q \in Queued : \A other \in Queued : q <= other
       IN  tasks' = [tasks EXCEPT ![i] = "building"]
    /\ UNCHANGED <<detail_vars, finder, db, command, result, calls, phase, threads, building,
                   build_error, files, commit_index, logged_error, exit_code,
                   db_at_start, progress>>

\* Mutant of TaskStart: a closure is started whether a worker is free or not.
TaskStartWithoutFreeWorker ==
    /\ phase = "build"
    /\ Queued # {}
    /\ LET i == CHOOSE q \in Queued : \A other \in Queued : q <= other
       IN  tasks' = [tasks EXCEPT ![i] = IF build_error # None THEN "skipped"
                                         ELSE "building"]
    /\ UNCHANGED <<detail_vars, finder, db, command, result, calls, phase, threads, building,
                   build_error, files, commit_index, logged_error, exit_code,
                   db_at_start, progress>>

\* A free worker takes the closure at the front of the queue; the closure
\* locks the slot and returns at once when it holds an error.
TaskStart ==
    /\ phase = "build"
    /\ Queued # {}
    /\ Cardinality(Running) < threads
    /\ LET i == CHOOSE q \in Queued : \A other \in Queued : q <= other
       IN  tasks' = [tasks EXCEPT ![i] = IF build_error # None THEN "skipped"
                                         ELSE "building"]
    /\ UNCHANGED <<detail_vars, finder, db, command, result, calls, phase, threads, building,
                   build_error, files, commit_index, logged_error, exit_code,
                   db_at_start, progress>>

\* action.build("/var/lib/japm/install_pkgs") in the closure of action i.
Build(i) ==
    /\ phase = "build"
    /\ tasks[i] = "building"
    /\ \E outcome \in BuildOutcomes :
        LET built == build(building[i], outcome, files)
        IN  /\ building' = [building EXCEPT ![i] = built.action]
            /\ files' = built.files
            /\ tasks' = [tasks EXCEPT ![i] = IF built.ok THEN "built" ELSE "failing"]
            /\ progress' = IF built.ok THEN increment_completed(progress, "ActionsBuild", 1)
                         ELSE progress
    /\ UNCHANGED <<detail_vars, finder, db, command, result, calls, phase, threads,
                   build_error, commit_index, logged_error, exit_code, db_at_start>>

\* The closure of action i, whose build returned an error, locks the slot
\* and assigns Some(error) to it.
RecordBuildError(i) ==
    /\ phase = "build"
    /\ tasks[i] = "failing"
    /\ build_error' = Some(CommandFail(building[i]))
    /\ tasks' = [tasks EXCEPT ![i] = "failed"]
    /\ progress' = increment_completed(progress, "ActionsBuild", 1)
    /\ UNCHANGED <<detail_vars, finder, db, command, result, calls, phase, threads, building,
                   files, commit_index, logged_error, exit_code, db_at_start>>

\* Mutant of JoinBuild: the error taken out of the slot is dropped and main
\* goes on to commit_actions.
JoinBuildIgnoresError ==
    /\ phase = "build"
    /\ \A i \in 1..Len(tasks) : tasks[i] \in {"built", "failed", "skipped"}
    /\ build_error' = None
    /\ phase' = "commit"
    /\ commit_index' = 1
    /\ progress' = announce(progress, "ActionsCommit", result.actions)
    /\ UNCHANGED <<detail_vars, finder, db, command, result, calls, threads, building, tasks,
                   files, logged_error, exit_code, db_at_start>>

\* Mutant of JoinBuild: join returns while closures are still running.
JoinBuildWithoutWaiting ==
    /\ phase = "build"
    /\ Queued = {}
    /\ build_error' = None
    /\ IF build_error # None
       THEN /\ logged_error' = <<"build", build_error[1]>>
            /\ exit_code' = Some(-1)
            /\ phase' = "exited"
            /\ UNCHANGED <<commit_index, progress>>
       ELSE /\ phase' = "commit"
            /\ commit_index' = 1
            /\ progress' = announce(progress, "ActionsCommit", result.actions)
            /\ UNCHANGED <<logged_error, exit_code>>
    /\ UNCHANGED <<detail_vars, finder, db, command, result, calls, threads, building, tasks,
                   files, db_at_start>>

\* thread_pool.join() returns; build_actions takes the error out of the
\* slot; main exits with -1 on an error and otherwise enters commit_actions,
\* which announces its list to the progress.
JoinBuild ==
    /\ phase = "build"
    /\ \A i \in 1..Len(tasks) : tasks[i] \in {"built", "failed", "skipped"}
    /\ build_error' = None
    /\ IF build_error # None
       THEN /\ logged_error' = <<"build", build_error[1]>>
            /\ exit_code' = Some(-1)
            /\ phase' = "exited"
            /\ UNCHANGED <<commit_index, progress>>
       ELSE /\ phase' = "commit"
            /\ commit_index' = 1
            /\ progress' = announce(progress, "ActionsCommit", result.actions)
            /\ UNCHANGED <<logged_error, exit_code>>
    /\ UNCHANGED <<detail_vars, finder, db, command, result, calls, threads, building, tasks,
                   files, db_at_start>>

\* Mutant of CommitAction: a failing commit puts the store back to what it
\* was before the first commit.
CommitActionRollsBack ==
    /\ phase = "commit"
    /\ commit_index <= Len(result.actions)
    /\ \E accepted \in BOOLEAN :
        IF accepted
        THEN /\ db' = commit(result.actions[commit_index], db)
             /\ commit_index' = commit_index + 1
             /\ progress' = increment_completed(progress, "ActionsCommit", 1)
             /\ UNCHANGED <<phase, logged_error, exit_code>>
        ELSE /\ logged_error' = <<"commit", CommitError(result.actions[commit_index])>>
             /\ exit_code' = Some(-1)
             /\ phase' = "exited"
             /\ db' = db_at_start
             /\ UNCHANGED <<commit_index, progress>>
    /\ UNCHANGED <<detail_vars, finder, command, result, calls, threads, building, tasks,
                   build_error, files, db_at_start>>

\* One turn of the loop of commit_actions over the list main resolved:
\* action.commit(db)?, the store accepting the statement or failing.
CommitAction ==
    /\ phase = "commit"
    /\ commit_index <= Len(result.actions)
    /\ \E accepted \in BOOLEAN :
        IF accepted
        THEN /\ db' = commit(result.actions[commit_index], db)
             /\ commit_index' = commit_index + 1
             /\ progress' = increment_completed(progress, "ActionsCommit", 1)
             /\ UNCHANGED <<phase, logged_error, exit_code>>
        ELSE /\ logged_error' = <<"commit", CommitError(result.actions[commit_index])>>
             /\ exit_code' = Some(-1)
             /\ phase' = "exited"
             /\ UNCHANGED <<db, commit_index, progress>>
    /\ UNCHANGED <<detail_vars, finder, command, result, calls, threads, building, tasks,
                   build_error, files, db_at_start>>

\* commit_actions returns Ok(()) and main calls exit(0).
ExitOk ==
    /\ phase = "commit"
    /\ commit_index > Len(result.actions)
    /\ exit_code' = Some(0)
    /\ phase' = "exited"
    /\ UNCHANGED <<detail_vars, finder, db, command, result, calls, threads, building, tasks,
                   build_error, files, commit_index, logged_error, db_at_start, progress>>

\* The worlds of the pipeline: the catalogue knows at most a and b, the
\* store holds records of a and b at the version of the catalogue.
PipelineCatalogues == {f \in Catalogues : f[NameOrder[Len(NameOrder)]] = None}

PipelineStores(f) ==
    {s \in Stores(f) : \A k \in 1..Len(s) : /\ s[k].name # NameOrder[Len(NameOrder)]
                                            /\ s[k].version = V_0_0_10}

PipelineInit ==
    /\ Init
    /\ finder \in PipelineCatalogues
    /\ db \in PipelineStores(finder)

PipelineNext ==
    \/ InstallPackages
    \/ RemovePackages
    \/ UpdatePackages
    \/ UpdateAllPackages
    \/ ResolutionFailed
    \/ BuildActions
    \/ TaskStart
    \/ \E i \in 1..Len(tasks) : Build(i)
    \/ \E i \in 1..Len(tasks) : RecordBuildError(i)
    \/ JoinBuild
    \/ CommitAction
    \/ ExitOk

PipelineSpec == PipelineInit /\ [][PipelineNext]_vars

\* ------------------------------------------------------------------------
\* Reference notions used by the properties (independent of the resolver)
\* ------------------------------------------------------------------------

Installed(n) == \E i \in 1..Len(db) : db[i].name = n

\* The record of an installed package.
LocalRecord(n) == db[CHOOSE i \in 1..Len(db) : db[i].name = n]

Known(n) == finder[n] # None

RemoteRecord(n) == finder[n][1]

\* Names of the rows that list n as a dependency, in row order.
DirectDependentNames(n) ==
    LET rows == SelectSeq(db, LAMBDA row : \E k \in 1..Len(row.dependencies) :
                                              row.dependencies[k] = n)
    IN  [k \in 1..Len(rows) |-> rows[k].name]

\* The installed names that depend, directly or through others, on a name
\* of S (S itself included).
RECURSIVE DependentsClosure(_)
DependentsClosure(S) ==
    LET more == S \cup {db[i].name : i \in {j \in 1..Len(db) :
                            \E k \in 1..Len(db[j].dependencies) : db[j].dependencies[k] \in S}}
    IN  IF more = S THEN S ELSE DependentsClosure(more)

\* The names the catalogue reaches from S through dependency lists (S
\* itself included).
RECURSIVE CatalogueClosure(_)
CatalogueClosure(S) ==
    LET more == S \cup UNION {{finder[n][1].dependencies[k] :
                                  k \in 1..Len(finder[n][1].dependencies)} :
                              n \in {m \in S : finder[m] # None}}
    IN  IF more = S THEN S ELSE CatalogueClosure(more)

Returns(type) == command.type = type /\ result.ok

Actions == result.actions

\* ------------------------------------------------------------------------
\* Properties
\* ------------------------------------------------------------------------

\* C1: in the list returned by install_packages, the Install of a dependency
\* D comes strictly before the Install of every package that lists D as a
\* dependency.
C1_DependencyInstalledBeforeDependent ==
    Returns("install") =>
        \A i, j \in 1..Len(Actions) :
            /\ Actions[i].kind = "Install"
            /\ Actions[j].kind = "Install"
            /\ Contains(Actions[j].package.dependencies, Actions[i].package.name)
            => i < j

\* C2: a list returned by install_packages, remove_packages, update_packages
\* or update_all_packages never holds two actions of the same variant for
\* the same package name.
C2_NoDuplicateActions ==
    (command.type # "none" /\ result.ok) =>
        \A i, j \in 1..Len(Actions) :
            /\ Actions[i].kind = Actions[j].kind
            /\ Actions[i].package.name = Actions[j].package.name
            => i = j

\* C3: merging the action set of a later name of the batch never moves an
\* action that is already present: the actions resolved for the first
\* requested name stay, in their order, at the front of the returned list.
C3_FirstInsertionPositionKept ==
    /\ (Returns("install") /\ command.packages # <<>>) =>
            LET first == install_packages(<<command.packages[1]>>,
                                          command.reinstall_options).actions
            IN  /\ Len(first) <= Len(Actions)
                /\ \A k \in 1..Len(first) : Actions[k] = first[k]
    /\ (Returns("remove") /\ command.packages # <<>>) =>
            LET first == remove_packages(<<command.packages[1]>>,
                                         command.recursive).actions
            IN  /\ Len(first) <= Len(Actions)
                /\ \A k \in 1..Len(first) : Actions[k] = first[k]

\* C6: in a list returned by remove_packages with recursive = true, the
\* Remove of a package comes before the Remove of each of its dependencies.
C6_DependentRemovedBeforeDependency ==
    (Returns("remove") /\ command.recursive) =>
        \A i, j \in 1..Len(Actions) :
            /\ Actions[i].kind = "Remove"
            /\ Actions[j].kind = "Remove"
            /\ Contains(Actions[i].package.dependencies, Actions[j].package.name)
            => i < j

\* The numeric value of the version strings of the model.
VersionWeight(v) ==
    CASE v = V_0_0_2 -> 2
      [] v = V_0_0_10 -> 10

RemoteNewer(n) == VersionWeight(RemoteRecord(n).version) > VersionWeight(LocalRecord(n).version)

ActionNames == {Actions[i].package.name : i \in 1..Len(Actions)}

OneName == Len(command.packages) = 1

Target == command.packages[1]

\* C4: remove_packages with recursive = false fails on the first requested
\* name that is installed and has an installed direct dependent (the names
\* before it being installed and without dependents) with
\* DependencyBreak(name, deps), deps being exactly the names of the records
\* that list name as a dependency, and returns no action.
C4_DependencyBreakListsDirectDependents ==
    (command.type = "remove" /\ ~command.recursive) =>
        \A k \in 1..Len(command.packages) :
            /\ \A j \in 1..(k - 1) : /\ Installed(command.packages[j])
                                     /\ DirectDependentNames(command.packages[j]) = <<>>
            /\ Installed(command.packages[k])
            /\ DirectDependentNames(command.packages[k]) # <<>>
            => /\ ~result.ok
               /\ Actions = <<>>
               /\ result.error = DependencyBreak(command.packages[k],
                                                 DirectDependentNames(command.packages[k]))

\* A non-recursive removal was refused although the target also has a
\* dependent that is not a direct one.
C4_Witness ==
    /\ command.type = "remove" /\ ~command.recursive /\ ~result.ok
    /\ Len(result.error) = 3
    /\ result.error[1] = "DependencyBreak"
    /\ result.error[3] # <<>>
    /\ \E n \in DependentsClosure({result.error[2]}) \ {result.error[2]} :
           ~Contains(result.error[3], n)

\* C5: remove_packages with recursive = true on one installed package T
\* returns the Remove of T and of every installed transitive dependent of T,
\* each once and nothing else, with Remove(T) after all the others.
C5_RecursiveRemoveTakesAllDependents ==
    (command.type = "remove" /\ command.recursive /\ OneName /\ Installed(Target)) =>
        /\ result.ok
        /\ Range(Actions) = {Remove(LocalRecord(n)) : n \in DependentsClosure({Target})}
        /\ Len(Actions) = Cardinality(DependentsClosure({Target}))
        /\ Actions[Len(Actions)] = Remove(LocalRecord(Target))

\* A recursive removal of a package with a direct dependent and a dependent
\* that is not a direct one.
C5_Witness ==
    /\ Returns("remove") /\ command.recursive /\ OneName /\ Installed(Target)
    /\ Len(Actions) = 3
    /\ \E n \in DependentsClosure({Target}) \ {Target} :
           ~Contains(DirectDependentNames(Target), n)

UpdatePolicy ==
    \/ command.type = "install" /\ command.reinstall_options = "Update"
    \/ command.type \in {"update", "update_all"}

C9_OutdatedPackageIsReplaced ==
    (command.type = "install" /\ command.reinstall_options = "Update"
        /\ OneName /\ Installed(Target) /\ Known(Target)
        /\ RemoteRecord(Target).dependencies = <<>> /\ RemoteNewer(Target)) =>
        /\ result.ok
        /\ Actions = <<Remove(LocalRecord(Target)), Install(RemoteRecord(Target))>>

\* An outdated installed package without dependencies was requested under
\* Update.
C9_Witness ==
    /\ Returns("install") /\ command.reinstall_options = "Update"
    /\ OneName /\ Installed(Target) /\ Known(Target)
    /\ RemoteRecord(Target).dependencies = <<>> /\ RemoteNewer(Target)
    /\ Len(Actions) = 2

\* C10: in a list returned under policy ForceReinstall, every requested
\* package that is installed has the Remove of its local record and the
\* Install of its remote package, the Remove first, whatever the versions;
\* every action is for a requested name or a name the catalogue reaches from
\* one through dependency lists, so a dependent of the package gets no
\* action on account of the reinstall.
C10_ForceReinstallRemovesThenInstalls ==
    (Returns("install") /\ command.reinstall_options = "ForceReinstall") =>
        /\ \A k \in 1..Len(command.packages) :
               Installed(command.packages[k]) =>
                   LET remove == Remove(LocalRecord(command.packages[k]))
                       install == Install(RemoteRecord(command.packages[k]))
                   IN  /\ Contains(Actions, remove)
                       /\ Contains(Actions, install)
                       /\ IndexOf(Actions, remove) < IndexOf(Actions, install)
        /\ ActionNames \subseteq CatalogueClosure(Range(command.packages))

\* An installed package at the version of the catalogue, with an installed
\* dependent, was reinstalled alone.
C10_Witness ==
    /\ Returns("install") /\ command.reinstall_options = "ForceReinstall"
    /\ OneName /\ Installed(Target)
    /\ ~RemoteNewer(Target)
    /\ DirectDependentNames(Target) # <<>>
    /\ Len(Actions) = 2

\* C11: with an empty store and policy Ignore, install_packages over names
\* whose catalogue closure is wholly known returns exactly one Install for
\* each package of the closure, no Remove, and the Install of every
\* dependency of a package before the Install of the package.
C11_EmptyStoreInstallsClosureInOrder ==
    (command.type = "install" /\ command.reinstall_options = "Ignore" /\ db = <<>>
        /\ \A n \in CatalogueClosure(Range(command.packages)) : Known(n)) =>
        /\ result.ok
        /\ Range(Actions) = {Install(RemoteRecord(n)) :
                                n \in CatalogueClosure(Range(command.packages))}
        /\ Len(Actions) = Cardinality(CatalogueClosure(Range(command.packages)))
        /\ \A j \in 1..Len(Actions) :
               \A k \in 1..Len(Actions[j].package.dependencies) :
                   \E i \in 1..(j - 1) :
                       Actions[i] = Install(RemoteRecord(Actions[j].package.dependencies[k]))

\* C12: in every list returned by install_packages, whatever the policy and
\* the store, each name in the dependency list of an installed package P has
\* an Install action at an earlier index than Install(P).
C12_EveryDependencyHasEarlierInstall ==
    Returns("install") =>
        \A j \in 1..Len(Actions) :
            Actions[j].kind = "Install" =>
                \A k \in 1..Len(Actions[j].package.dependencies) :
                    \E i \in 1..(j - 1) :
                        /\ Actions[i].kind = "Install"
                        /\ Actions[i].package.name = Actions[j].package.dependencies[k]

\* Indices of the find_package calls that reported not-found.
NotFoundLookups ==
    {i \in 1..Len(calls) : calls[i].fn = "find_package" /\ ~Known(calls[i].arg)}

\* C13: when find_package reports not-found for a name during
\* install_packages, whether the name was requested or reached as a
\* dependency, resolution stops at that call and the result is
\* PackageNotFound(that name) without any action; a requested name the
\* catalogue does not know always makes the command fail, and a list is
\* returned only when every requested name and every dependency of every
\* Install in it is known.
C13_NotFoundIsReported ==
    command.type = "install" =>
        /\ NotFoundLookups # {} =>
               /\ ~result.ok
               /\ Actions = <<>>
               /\ NotFoundLookups = {Len(calls)}
               /\ result.error = PackageNotFound(calls[Len(calls)].arg)
        /\ (\E k \in 1..Len(command.packages) : ~Known(command.packages[k])) =>
               /\ ~result.ok
               /\ Actions = <<>>
               /\ \E n \in Names : ~Known(n) /\ result.error = PackageNotFound(n)
        /\ result.ok =>
               /\ \A k \in 1..Len(command.packages) : Known(command.packages[k])
               /\ \A j \in 1..Len(Actions) :
                      Actions[j].kind = "Install" =>
                          \A k \in 1..Len(Actions[j].package.dependencies) :
                              Known(Actions[j].package.dependencies[k])

\* The second requested name has a dependency the catalogue does not know,
\* after a first name that resolved to actions.
C13_Witness ==
    /\ command.type = "install" /\ ~result.ok
    /\ Len(command.packages) = 2
    /\ Known(command.packages[1]) /\ Known(command.packages[2])
    /\ ~Installed(command.packages[1])
    /\ \E n \in Names : /\ result.error = PackageNotFound(n)
                        /\ n \notin Range(command.packages)
                        /\ Contains(RemoteRecord(command.packages[2]).dependencies, n)

\* C14: remove_packages fails with PackageNotInstalled(name) and returns no
\* action when name is the first requested name without a record in the
\* store and every name before it in the batch resolves (it is installed
\* and, unless the removal is recursive, has no installed dependent).
C14_MissingRecordIsReported ==
    command.type = "remove" =>
        \A k \in 1..Len(command.packages) :
            /\ ~Installed(command.packages[k])
            /\ \A j \in 1..(k - 1) :
                   /\ Installed(command.packages[j])
                   /\ command.recursive \/ DirectDependentNames(command.packages[j]) = <<>>
            => /\ ~result.ok
               /\ Actions = <<>>
               /\ result.error = PackageNotInstalled(command.packages[k])

\* The second name of a recursive removal has no record; the first one is
\* installed and has a dependent, so actions were already resolved.
C14_Witness ==
    /\ command.type = "remove" /\ command.recursive /\ ~result.ok
    /\ Len(command.packages) = 2
    /\ Installed(command.packages[1])
    /\ DirectDependentNames(command.packages[1]) # <<>>
    /\ ~Installed(command.packages[2])
    /\ result.error = PackageNotInstalled(command.packages[2])

\* C15: when the command returns an error (the resolution of a requested
\* name failed), no action list is returned, nothing is queued, built or
\* committed, no file is touched, the store is the store before the
\* command, and main can only exit, with the code -1 and the error of the
\* command logged.
C15_FailedResolutionExecutesNothing ==
    (command # NoCommand /\ ~result.ok) =>
        /\ Actions = <<>>
        /\ tasks = <<>> /\ building = <<>> /\ files = {}
        /\ commit_index = 0
        /\ db = db_at_start
        /\ phase \in {"command", "exited"}
        /\ phase = "command" => ENABLED ResolutionFailed /\ ~ENABLED BuildActions
        /\ phase = "exited" =>
               /\ exit_code = Some(-1)
               /\ logged_error = <<"command", result.error>>

\* The process has exited on the failure of the second requested name; the
\* first name alone resolves to a list of actions.
C15_Witness ==
    /\ phase = "exited" /\ ~result.ok
    /\ command.type = "install" /\ Len(command.packages) = 2
    /\ LET first == install_packages(<<command.packages[1]>>, command.reinstall_options)
       IN  first.ok /\ first.actions # <<>>

\* The builds that returned an error.
FailedBuilds == {i \in 1..Len(tasks) : tasks[i] \in {"failing", "failed"}}

\* C16: once the build of any action has failed, in every later state of
\* every interleaving of the workers no commit has been executed: the
\* commit loop was never entered, the store is the store before the
\* command, and when the process has exited its code is -1.
C16_FailedBuildPreventsEveryCommit ==
    FailedBuilds # {} =>
        /\ phase \in {"build", "exited"}
        /\ commit_index = 0
        /\ db = db_at_start
        /\ phase = "exited" =>
               /\ exit_code = Some(-1)
               /\ logged_error # <<>> /\ logged_error[1] = "build"

\* The process has exited after a run with two workers in which one build
\* failed and another one moved its files into place.
C16_Witness ==
    /\ phase = "exited" /\ threads = 2
    /\ FailedBuilds # {}
    /\ \E i \in 1..Len(tasks) : /\ tasks[i] = "built"
                                /\ building[i].kind = "Install"
                                /\ RealPath(building[i].package.name) \in files
    /\ db = db_at_start

\* C17: during the build phase, once the shared slot holds an error its
\* content never changes: a later failing build does not replace the error
\* that build_actions will report.
C17_FirstErrorIsNeverOverwritten ==
    [][(build_error # None /\ phase' = "build") => build_error' = build_error]_vars

\* C18: in every step of the build phase, a queued task that starts while
\* the slot holds an error becomes skipped without any build (the clone of
\* its action and the real files are untouched), a skipped task stays
\* skipped with its action as it was resolved, and a build that is in
\* progress is never cancelled: it stays in progress or completes, and the
\* build phase does not end while it is in progress.
C18_LateTasksSkippedRunningBuildsFinish ==
    [][\A i \in 1..Len(tasks) :
          /\ (tasks[i] = "queued" /\ tasks'[i] # "queued" /\ build_error # None) =>
                 /\ tasks'[i] = "skipped"
                 /\ building' = building
                 /\ files' = files
          /\ tasks[i] = "skipped" =>
                 /\ tasks'[i] = "skipped"
                 /\ building'[i] = result.actions[i]
          /\ tasks[i] = "building" =>
                 /\ tasks'[i] \in {"building", "built", "failing"}
                 /\ phase' = "build"]_vars

\* With two workers, one build has failed and set the slot while another
\* build is still in progress, and a later task was skipped.
C18_Witness ==
    /\ phase = "build" /\ build_error # None
    /\ \E i, j, k \in 1..Len(tasks) : /\ tasks[i] = "failed"
                                      /\ tasks[j] = "building"
                                      /\ tasks[k] = "skipped"
                                      /\ j < k

\* The store after the first k actions of the resolved list were committed,
\* one after the other in the order of the list, to the store the command
\* started with.
RECURSIVE CommittedPrefix(_)
CommittedPrefix(k) ==
    IF k = 0 THEN db_at_start
    ELSE LET before == CommittedPrefix(k - 1)
             action == result.actions[k]
         IN  IF action.kind = "Install"
             THEN Append(before, action.package)
             ELSE SelectSeq(before, LAMBDA row : row.name # action.package.name)

\* C19: while and after commit_actions runs, the store is the result of
\* committing, in list order, exactly the actions before the index the loop
\* is at; when the commit of the action at that index fails the process
\* exits with -1 on that action's error, the earlier actions stay committed
\* and no later action is committed; exit code 0 means the whole list was
\* committed.
C19_CommitsInOrderWithoutRollback ==
    commit_index >= 1 =>
        /\ commit_index <= Len(result.actions) + 1
        /\ db = CommittedPrefix(commit_index - 1)
        /\ (phase = "exited" /\ exit_code = Some(-1)) =>
               /\ commit_index <= Len(result.actions)
               /\ logged_error = <<"commit", CommitError(result.actions[commit_index])>>
        /\ (phase = "exited" /\ exit_code = Some(0)) =>
               commit_index = Len(result.actions) + 1

\* The commit of the third action failed after two commits that changed the
\* store, and an action after it was left uncommitted.
C19_Witness ==
    /\ phase = "exited" /\ exit_code = Some(-1)
    /\ commit_index = 3
    /\ Len(result.actions) > 3
    /\ db # db_at_start
    /\ db # CommittedPrefix(1)

\* C20: after a run that exits with 0, for every Install(P) of the list the
\* store holds a record of P whose package_files is the list of real paths
\* that the build of that action moved into place.
C20_StoredFilesAreTheFilesMoved ==
    (phase = "exited" /\ exit_code = Some(0)) =>
        \A i \in 1..Len(result.actions) :
            result.actions[i].kind = "Install" =>
                /\ building[i].package.package_files # <<>>
                /\ Range(building[i].package.package_files) \subseteq files
                /\ \E k \in 1..Len(db) :
                       /\ db[k].name = result.actions[i].package.name
                       /\ db[k].package_files = building[i].package.package_files

\* The tasks whose build ran to its end, with success or with an error.
CompletedBuilds == {i \in 1..Len(tasks) : tasks[i] \in {"built", "failed"}}

C22_CommitAddsOrRemovesTheRecord ==
    [][(phase = "commit" /\ commit_index <= Len(result.actions)) =>
          LET action == result.actions[commit_index]
              rows == SelectSeq(db', LAMBDA row : row.name = action.package.name)
          IN  IF commit_index' = commit_index + 1
              THEN /\ phase' = "commit"
                   /\ action.kind = "Install" =>
                          /\ rows # <<>>
                          /\ \E k \in 1..Len(rows) : rows[k] = action.package
                          /\ Len(db') = Len(db) + 1
                   /\ action.kind = "Remove" => rows = <<>>
              ELSE /\ db' = db
                   /\ commit_index' = commit_index
                   /\ phase' = "exited"
                   /\ exit_code' = Some(-1)
                   /\ logged_error' =
                          <<"commit", <<IF action.kind = "Install" THEN "DatabaseAdd"
                                        ELSE "DatabaseRemove", action.package.name>>>>]_vars

\* The loop of commit_actions has committed the Remove of an installed
\* package and the Install of another one: the first has no record left,
\* the second has one.
C22_Witness ==
    /\ phase = "commit"
    /\ \E i, j \in 1..(commit_index - 1) :
           /\ result.actions[i].kind = "Remove"
           /\ \E k \in 1..Len(db_at_start) :
                  db_at_start[k].name = result.actions[i].package.name
           /\ \A k \in 1..Len(db) : db[k].name # result.actions[i].package.name
           /\ result.actions[j].kind = "Install"
           /\ \E k \in 1..Len(db) : db[k] = result.actions[j].package

\* C23: while the actions of a list returned by install_packages,
\* remove_packages, update_packages or update_all_packages are committed in
\* order to a store that had at most one record per name, the store holds
\* at most one record per name.
C23_OneRecordPerName ==
    \A i, j \in 1..Len(db) : db[i].name = db[j].name => i = j

\* ------------------------------------------------------------------------
\* Equality of actions (src/src/action.rs 17-21, src/src/package.rs)
\* ------------------------------------------------------------------------

\* struct PackageData { name, version, description }
PackageData(name, version, description) ==
    [name |-> name, version |-> version, description |-> description]

\* A RemotePackage with every field of the struct.
FullRemotePackage ==
    [package_data |-> PackageData("a", V_0_0_2, "tool"),
     dependencies |-> <<"b">>,
     pre_install |-> <<"true">>, install |-> <<"make">>,
     post_install |-> <<"true">>, pre_remove |-> <<"true">>,
     package_files |-> <<>>, post_remove |-> <<"true">>]

\* A LocalPackage with every field of the struct.
FullLocalPackage ==
    [package_data |-> PackageData("a", V_0_0_2, "tool"),
     dependencies |-> <<"b">>, pre_remove |-> <<"true">>,
     package_files |-> <<>>, post_remove |-> <<"true">>]

\* Another value for each field.
OtherPackageData ==
    {PackageData("b", V_0_0_2, "tool"), PackageData("a", V_0_0_10, "tool"),
     PackageData("a", V_0_0_2, "")}

OtherValue(field) ==
    CASE field = "dependencies" -> <<>>
      [] field = "package_files" -> <<RealPath("a")>>
      [] OTHER -> <<"false">>

\* The packages that differ from package in at most one field.
Variations(package) ==
    {package}
    \cup {[package EXCEPT !.package_data = d] : d \in OtherPackageData}
    \cup {[package EXCEPT ![f] = OtherValue(f)] :
            f \in DOMAIN package \ {"package_data"}}

ComparedActions ==
    {[kind |-> "Install", package |-> p] : p \in Variations(FullRemotePackage)}
    \cup {[kind |-> "Remove", package |-> p] : p \in Variations(FullLocalPackage)}

\* derive(PartialEq) on PackageData: every field, in declaration order.
PackageDataEq(a, b) ==
    a.name = b.name /\ a.version = b.version /\ a.description = b.description

\* derive(PartialEq) on RemotePackage
RemotePackageEq(a, b) ==
    /\ PackageDataEq(a.package_data, b.package_data)
    /\ a.dependencies = b.dependencies
    /\ a.pre_install = b.pre_install
    /\ a.install = b.install
    /\ a.post_install = b.post_install
    /\ a.pre_remove = b.pre_remove
    /\ a.package_files = b.package_files
    /\ a.post_remove = b.post_remove

\* derive(PartialEq) on LocalPackage
LocalPackageEq(a, b) ==
    /\ PackageDataEq(a.package_data, b.package_data)
    /\ a.dependencies = b.dependencies
    /\ a.pre_remove = b.pre_remove
    /\ a.package_files = b.package_files
    /\ a.post_remove = b.post_remove

\* An equality that reads the identity and the dependencies only.
ActionEqIdentityAndDependencies(a, b) ==
    /\ a.kind = b.kind
    /\ PackageDataEq(a.package.package_data, b.package.package_data)
    /\ a.package.dependencies = b.package.dependencies

\* derive(PartialEq) on Action: the same variant and equal payloads.
ActionEq(a, b) ==
    /\ a.kind = b.kind
    /\ IF a.kind = "Install" THEN RemotePackageEq(a.package, b.package)
       ELSE LocalPackageEq(a.package, b.package)

\* Two actions are compared: left == right.
Compare ==
    /\ equal = None
    /\ left # None
    /\ equal' = Some(ActionEq(left[1], right[1]))
    /\ UNCHANGED <<finder, db, command, result, calls, pipeline_vars, left, right,
                   stepwise_vars, build_vars>>

EqualityInit ==
    /\ finder = [n \in Names |-> None]
    /\ db = <<>>
    /\ MainAtStart
    /\ left \in {Some(a) : a \in ComparedActions}
    /\ right \in {Some(a) : a \in ComparedActions}
    /\ equal = None
    /\ NoResolution
    /\ NoBuild

EqualityNext == Compare

EqualitySpec == EqualityInit /\ [][EqualityNext]_vars

SameVariant == left[1].kind = right[1].kind

SameIdentity == left[1].package.package_data = right[1].package.package_data

SameDependencies == left[1].package.dependencies = right[1].package.dependencies

\* C24: two actions compare equal if and only if they have the same variant,
\* the same package identity (name, version, description) and the same
\* dependency list; scripts and package_files take no part.
C24_EqualIffSameIdentityAndDependencies ==
    equal # None =>
        (equal[1] <=> (SameVariant /\ SameIdentity /\ SameDependencies))

\* C24, amended: two actions compare equal if and only if they have the same
\* variant and their packages agree on every field: identity, dependency
\* list, every script list and package_files.
C24_EqualIffEveryFieldEqual ==
    equal # None =>
        (equal[1] <=>
            /\ SameVariant
            /\ \A f \in DOMAIN left[1].package :
                   left[1].package[f] = right[1].package[f])

\* Two actions with the same variant, identity and dependencies that differ
\* in a script or in package_files were compared.
C24_Witness ==
    /\ equal = Some(FALSE)
    /\ SameVariant /\ SameIdentity /\ SameDependencies

\* The installed packages that depend on n, directly or through others.
Dependents(n) == DependentsClosure({n}) \ {n}

\* rest is, for the requested names from index i on, the concatenation of
\* the lists that install_packages with policy Update returns for the
\* dependents of the name, in some order, followed by the name.
RECURSIVE UpdateResolvesListings(_, _)
UpdateResolvesListings(i, rest) ==
    IF i > Len(command.packages) THEN rest = <<>>
    ELSE \E dependents \in DistinctSeqs(Dependents(command.packages[i]), Len(NameOrder)) :
            /\ Range(dependents) = Dependents(command.packages[i])
            /\ LET listed == install_packages(Append(dependents, command.packages[i]),
                                              "Update")
               IN  /\ listed.ok
                   /\ Len(listed.actions) <= Len(rest)
                   /\ SubSeq(rest, 1, Len(listed.actions)) = listed.actions
                   /\ UpdateResolvesListings(i + 1,
                          SubSeq(rest, Len(listed.actions) + 1, Len(rest)))

\* n was compared against its remote version: it was looked up, its record
\* was read, and it is reinstalled exactly when the remote version is newer.
Compared(n) ==
    /\ Contains(calls, FindCall(n))
    /\ Contains(calls, GetCall(n))
    /\ Known(n)
    /\ IF RemoteNewer(n)
       THEN /\ Contains(Actions, Remove(LocalRecord(n)))
            /\ Contains(Actions, Install(RemoteRecord(n)))
       ELSE n \notin ActionNames

\* C25: the list update_packages returns is, for each requested name, what
\* install_packages with policy Update returns for all transitive dependents
\* of the name followed by the name itself; every installed package that
\* transitively depends on a requested name is compared against its remote
\* version.
C25_UpdateResolvesDependentsThenName ==
    Returns("update") =>
        /\ UpdateResolvesListings(1, Actions)
        /\ \A k \in 1..Len(command.packages) :
               \A n \in Dependents(command.packages[k]) : Compared(n)

\* update_packages returned for a name with a dependent of a dependent, and
\* that indirect dependent is reinstalled.
C25_Witness ==
    /\ Returns("update")
    /\ OneName
    /\ \E n \in Dependents(Target) :
           /\ ~Contains(LocalRecord(n).dependencies, Target)
           /\ RemoteNewer(n)
           /\ Contains(Actions, Remove(LocalRecord(n)))

\* The records that list n in their dependencies.
DirectDependents(n) ==
    {db[i] : i \in {j \in 1..Len(db) : Contains(db[j].dependencies, n)}}

NoDuplicates(seq) == \A i, j \in 1..Len(seq) : seq[i] = seq[j] => i = j

\* C26: get_depending(name, db, 1) returns exactly the installed packages
\* that list name as a direct dependency; get_depending(name, db, -1), the
\* installed graph being acyclic, returns exactly the installed packages that
\* depend on name directly or through others, each once.  Stated for the
\* names that remove_packages (max_level 1) and update_packages
\* (max_level -1) ask about.
C26_DependingIsDirectOrClosure ==
    /\ command.type = "remove" =>
        \A k \in 1..Len(command.packages) :
            LET direct == get_depending(command.packages[k], 1).set
            IN  /\ Range(direct) = DirectDependents(command.packages[k])
                /\ NoDuplicates(direct)
    /\ command.type = "update" =>
        \A k \in 1..Len(command.packages) :
            LET all == get_depending(command.packages[k], -1).set
            IN  /\ Range(all) = {LocalRecord(m) : m \in Dependents(command.packages[k])}
                /\ NoDuplicates(all)

\* update_packages asked the store for the dependents of a name that has a
\* direct dependent and a dependent of that dependent only.
C26_Witness ==
    /\ command.type = "update"
    /\ OneName
    /\ Contains(calls, GetDependingCall(Target))
    /\ DirectDependents(Target) # {}
    /\ \E m \in Dependents(Target) : LocalRecord(m) \notin DirectDependents(Target)
    /\ Len(get_depending(Target, -1).set) = 2
    /\ Len(get_depending(Target, 1).set) = 1

\* ------------------------------------------------------------------------
\* install_package call by call, over catalogues that may hold cycles
\* (src/src/commands.rs 154-245)
\* ------------------------------------------------------------------------

\* The deepest nesting of install_package calls that is followed.
MaxDepth == 4

\* A call of install_package that has reached its loop over the
\* dependencies: the package found, the index of the next dependency, the
\* set of actions so far.
Frame(remote_package, i, actions) ==
    [package |-> remote_package, i |-> i, actions |-> actions]

\* Mutant of install_package_head: a name that a call in progress is
\* already resolving returns the empty set.
install_package_head_guarded(package_name, reinstall_options) ==
    LET found == find_package(package_name)
    IN  IF found = None
        THEN [value |-> Some(Err(PackageNotFound(package_name), <<>>)), frame |-> None]
        ELSE IF \E k \in 1..Len(stack) : stack[k].package.name = package_name
        THEN [value |-> Some(Ok(<<>>, <<>>)), frame |-> None]
        ELSE
        LET remote_package == found[1]
            local == get_package(remote_package.name)
        IN  IF local = None
            THEN [value |-> None, frame |-> Some(Frame(remote_package, 1, <<>>))]
            ELSE
            LET decision == existing_package_decision(remote_package, local[1],
                                                      reinstall_options)
            IN  CASE decision = "reinstall" ->
                        [value |-> None,
                         frame |-> Some(Frame(remote_package, 1, <<Remove(local[1])>>))]
                  [] decision = "skip" -> [value |-> Some(Ok(<<>>, <<>>)), frame |-> None]
                  [] decision = "error" ->
                        [value |-> Some(Err(VersionParseError, <<>>)), frame |-> None]

\* install_package from its entry to its loop over the dependencies: it
\* returns a value (the name is unknown, the installed package is skipped, a
\* version does not parse) or reaches the loop with a frame.
install_package_head(package_name, reinstall_options) ==
    LET found == find_package(package_name)
    IN  IF found = None
        THEN [value |-> Some(Err(PackageNotFound(package_name), <<>>)), frame |-> None]
        ELSE
        LET remote_package == found[1]
            local == get_package(remote_package.name)
        IN  IF local = None
            THEN [value |-> None, frame |-> Some(Frame(remote_package, 1, <<>>))]
            ELSE
            LET decision == existing_package_decision(remote_package, local[1],
                                                      reinstall_options)
            IN  CASE decision = "reinstall" ->
                        [value |-> None,
                         frame |-> Some(Frame(remote_package, 1, <<Remove(local[1])>>))]
                  [] decision = "skip" -> [value |-> Some(Ok(<<>>, <<>>)), frame |-> None]
                  [] decision = "error" ->
                        [value |-> Some(Err(VersionParseError, <<>>)), frame |-> None]

Front(s) == SubSeq(s, 1, Len(s) - 1)

\* A call returned value to the calls in frames.  An error goes through
\* every caller (the ? operator) and out of install_packages; a set is
\* merged into the actions of the innermost caller, whose loop goes on;
\* without a caller, install_packages returns it.
RECURSIVE deliver(_, _)
deliver(frames, value) ==
    IF frames = <<>> THEN [stack |-> <<>>, returned |-> Some(Returned(value))]
    ELSE IF ~value.ok THEN deliver(Front(frames), value)
    ELSE LET caller == frames[Len(frames)]
         IN  [stack |-> Append(Front(frames),
                               Frame(caller.package, caller.i + 1,
                                     LinkedHashSetExtend(caller.actions, value.actions))),
              returned |-> None]

\* The stepwise resolver goes on with what deliver gave.
Delivered(d) ==
    /\ stack' = d.stack
    /\ IF d.returned = None
       THEN resolution' = "resolving" /\ UNCHANGED result
       ELSE resolution' = "returned" /\ result' = d.returned[1]

\* install_packages([package_name], reinstall_options) enters install_package.
ResolveInstall ==
    /\ command = NoCommand
    /\ resolution = "idle"
    /\ \E package_name \in Names, reinstall_options \in ReinstallOptions :
        LET head == install_package_head(package_name, reinstall_options)
        IN  /\ command' = [type |-> "install", packages |-> <<package_name>>,
                           reinstall_options |-> reinstall_options, recursive |-> FALSE]
            /\ IF head.frame = None
               THEN Delivered(deliver(<<>>, head.value[1]))
               ELSE Delivered([stack |-> <<head.frame[1]>>, returned |-> None])
    /\ UNCHANGED <<finder, db, calls, pipeline_vars, equality_vars, build_vars>>

\* The innermost call enters install_package for its next dependency.
Descend ==
    /\ resolution = "resolving"
    /\ Len(stack) < MaxDepth
    /\ LET caller == stack[Len(stack)]
       IN  /\ caller.i <= Len(caller.package.dependencies)
           /\ LET head == install_package_head(caller.package.dependencies[caller.i],
                                               command.reinstall_options)
              IN  IF head.frame = None
                  THEN Delivered(deliver(stack, head.value[1]))
                  ELSE Delivered([stack |-> Append(stack, head.frame[1]),
                                  returned |-> None])
    /\ UNCHANGED <<finder, db, command, calls, pipeline_vars, equality_vars,
                   build_vars>>

\* The innermost call is through its dependencies: it inserts the Install of
\* its package and returns its set.
Finish ==
    /\ resolution = "resolving"
    /\ LET callee == stack[Len(stack)]
       IN  /\ callee.i > Len(callee.package.dependencies)
           /\ Delivered(deliver(Front(stack),
                                Ok(LinkedHashSetInsert(callee.actions,
                                                       Install(callee.package)), <<>>)))
    /\ UNCHANGED <<finder, db, command, calls, pipeline_vars, equality_vars,
                   build_vars>>

\* Dependency lists of up to two names, of any name: cycles are possible.
AnyDependencyLists == DistinctSeqs(Names, 2)

\* A catalogue whose last name is unknown and whose other names are
\* unknown or known with any dependency list.
CyclicCatalogues ==
    {f \in [Names -> {None} \cup {Some(Package(n, v, d)) :
                                      n \in Names, v \in RemoteVersions,
                                      d \in AnyDependencyLists}] :
        /\ f[NameOrder[Len(NameOrder)]] = None
        /\ \A n \in Names : f[n] # None => f[n][1].name = n}

\* A store of the known names in catalogue order, any of them installed at
\* an older or at the same version.
CyclicStores(f) ==
    {s \in Stores(f) :
        /\ \A k \in 1..Len(s) : f[s[k].name] # None
        /\ \A j, k \in 1..Len(s) : j < k => NameIndex(s[j].name) < NameIndex(s[k].name)}

StepwiseInit ==
    /\ finder \in CyclicCatalogues
    /\ db \in CyclicStores(finder)
    /\ MainAtStart
    /\ NoComparison
    /\ NoResolution
    /\ NoBuild

StepwiseNext ==
    \/ ResolveInstall
    \/ Descend
    \/ Finish

StepwiseSpec == StepwiseInit /\ [][StepwiseNext]_vars

\* The requested package is not installed and is reached again from its own
\* dependencies through the dependency lists of the catalogue.
DependsOnItself(n) ==
    /\ Known(n)
    /\ ~Installed(n)
    /\ n \in CatalogueClosure(Range(RemoteRecord(n).dependencies))

\* The call for n goes on to the dependencies of n: n is known and is not
\* installed, or is installed and reinstalled under the policy.
GoesOn(n) ==
    /\ Known(n)
    /\ \/ ~Installed(n)
       \/ command.reinstall_options = "ForceReinstall"
       \/ command.reinstall_options = "Update" /\ RemoteNewer(n)

StepwiseInstall == command.type = "install" /\ resolution # "idle"

\* C27: when a not-installed package transitively depends on itself in the
\* catalogue, install resolution of that package never returns an action
\* list or an error, while the set of actions stays bounded.
C27_SelfDependencyNeverReturns ==
    (StepwiseInstall /\ DependsOnItself(Target)) => resolution # "returned"

\* C27, amended: when a not-installed package transitively depends on
\* itself in the catalogue and every call for a package it reaches goes on
\* to the dependencies of that package, install resolution of that package
\* never returns an action list or an error; every set of actions in
\* progress is without duplicate and holds at most one Install and one
\* Remove per name.
C27_UnbrokenCycleNeverReturns ==
    (/\ StepwiseInstall
     /\ DependsOnItself(Target)
     /\ \A n \in CatalogueClosure({Target}) : GoesOn(n))
    => /\ resolution # "returned"
       /\ \A k \in 1..Len(stack) :
            /\ NoDuplicates(stack[k].actions)
            /\ Len(stack[k].actions) <= 2 * Cardinality(Names)

\* The resolution of a package on a cycle of two packages is inside a second
\* call for that package.
C27_Witness ==
    /\ StepwiseInstall
    /\ DependsOnItself(Target)
    /\ \A n \in CatalogueClosure({Target}) : GoesOn(n)
    /\ Target \notin Range(RemoteRecord(Target).dependencies)
    /\ \E j, k \in 1..Len(stack) :
           /\ j < k
           /\ stack[j].package.name = Target
           /\ stack[k].package.name = Target

\* ------------------------------------------------------------------------
\* Action::build step by step on a filesystem (src/src/action.rs 56-251)
\* ------------------------------------------------------------------------

\* What a path is on a filesystem: nothing, a file or a directory.
Kinds == {"none", "file", "dir"}

\* root_path of find_package_files: Path::new("/"), no component.
Root == <<>>

\* The real paths that are followed, as their components from the root.
Paths == {<<"usr">>, <<"usr", "bin">>, <<"opt">>, <<"opt", "bin">>}

\* install_directory: format!("{}/{}", package_build_path, name)
InstallDirectory == <<"build", "a">>

StagedPaths == {InstallDirectory \o path : path \in Paths}

Parent(path) == SubSeq(path, 1, Len(path) - 1)

IsPrefix(a, b) == Len(a) <= Len(b) /\ SubSeq(b, 1, Len(a)) = a

\* The filesystems under base: a path that exists lies in a directory.
Trees(base, paths) ==
    {tree \in [paths -> Kinds] :
        \A path \in paths :
            (tree[path] # "none" /\ Parent(path) # base) => tree[Parent(path)] = "dir"}

EmptyTree(paths) == [path \in paths |-> "none"]

\* PathBuf::to_string_lossy: every component after a separator.
RECURSIVE PathString(_)
PathString(path) ==
    IF path = <<>> THEN <<>>
    ELSE <<"/", Head(path)>> \o PathString(Tail(path))

\* Path::new(string): the components between the separators.
PathOf(string) == SelectSeq(string, LAMBDA c : c # "/")

\* A RemotePackage with its scripts: two commands before the install
\* command, one after it.
BuiltRemotePackage ==
    [package_data |-> PackageData("a", V_0_0_10, "tool"),
     dependencies |-> <<>>,
     pre_install |-> <<"configure", "make">>, install |-> <<"make install">>,
     post_install |-> <<"ldconfig">>, pre_remove |-> <<"stop a">>,
     package_files |-> <<>>, post_remove |-> <<"ldconfig", "notify">>]

\* The LocalPackage that the record of a RemotePackage gives (db.rs
\* add_package, get_package).
LocalOf(remote_package) ==
    [package_data |-> remote_package.package_data,
     dependencies |-> remote_package.dependencies,
     pre_remove |-> remote_package.pre_remove,
     package_files |-> remote_package.package_files,
     post_remove |-> remote_package.post_remove]

\* The exit status of a command: success, a code that is not zero, none
\* (the process was ended by a signal).
ExitStatuses == {"success", "nonzero", "no_status"}

\* The exit code of a command that fails with a code.
SomeCode == 1

\* The code that run_command reports when the status has none.
NoStatusCode == 80085

CommandFailed(command_line, code) == <<"CommandFail", command_line, code>>

InvalidCommand(command_line) == <<"InvalidCommand", command_line>>

IOError(kind) == <<"IO", kind>>

\* run_command: the command is split into words and run; a status that is
\* not success gives CommandFail with the code, or with 80085 without one.
run_command(command_line, status) ==
    IF command_line = ""
    THEN [ok |-> FALSE, error |-> InvalidCommand(command_line)]
    ELSE CASE status = "success" -> [ok |-> TRUE, error |-> <<>>]
           [] status = "nonzero" ->
                [ok |-> FALSE, error |-> CommandFailed(command_line, SomeCode)]
           [] status = "no_status" ->
                [ok |-> FALSE, error |-> CommandFailed(command_line, NoStatusCode)]

\* Path::is_dir
is_dir(tree, base, path) == path = base \/ (path \in DOMAIN tree /\ tree[path] = "dir")

\* Mutant of try_exists: no path is found to exist.
try_exists_finds_nothing(on_disk, path) ==
    [ok |-> TRUE, value |-> FALSE]

\* Path::try_exists on the real filesystem: an error other than NotFound
\* (a component of the path is a file) is returned.
try_exists(on_disk, path) ==
    IF path # Root /\ Parent(path) # Root /\ on_disk[Parent(path)] = "file"
    THEN [ok |-> FALSE, value |-> FALSE]
    ELSE [ok |-> TRUE, value |-> path = Root \/ on_disk[path] # "none"]

\* translate_to_root: the path relative to files_root_dir, joined to root_dir.
translate_to_root(file, files_root_dir, root_dir) ==
    root_dir \o SubSeq(file, Len(files_root_dir) + 1, Len(file))

\* The orders in which fs::read_dir can give the entries: any.
ReadDirOrders ==
    {order \in DistinctSeqs(StagedPaths, Cardinality(StagedPaths)) :
        Len(order) = Cardinality(StagedPaths)}

\* fs::read_dir(path): the entries of the directory, in the order given.
read_dir(staged, path, order) ==
    SelectSeq(order, LAMBDA entry : Parent(entry) = path /\ staged[entry] # "none")

RECURSIVE find_package_files(_, _, _, _, _, _)
RECURSIVE find_package_files_loop(_, _, _, _, _, _, _, _)

\* Mutant of find_package_files_loop: a recorded directory is entered too.
find_package_files_loop_enters_recorded(entries, i, base_path, root_path, staged, on_disk, order, dirs) ==
    IF i > Len(entries) THEN [ok |-> TRUE, new_dirs |-> dirs]
    ELSE
    LET subpath == entries[i]
        translated_subpath == translate_to_root(subpath, base_path, root_path)
        exists == try_exists(on_disk, translated_subpath)
        pushed == IF exists.value THEN dirs
                  ELSE Append(dirs, <<subpath, translated_subpath>>)
    IN  IF ~exists.ok THEN [ok |-> FALSE, new_dirs |-> <<>>]
        ELSE IF is_dir(staged, base_path, subpath)
        THEN LET sub == find_package_files(subpath, base_path, root_path, staged,
                                           on_disk, order)
             IN  IF ~sub.ok THEN [ok |-> FALSE, new_dirs |-> <<>>]
                 ELSE find_package_files_loop(entries, i + 1, base_path, root_path,
                                              staged, on_disk, order,
                                              pushed \o sub.new_dirs)
        ELSE find_package_files_loop(entries, i + 1, base_path, root_path, staged,
                                     on_disk, order, pushed)

\* The loop of find_package_files over the entries, from index i on: an
\* entry whose translated path does not exist is pushed and not entered; a
\* directory whose translated path exists is entered.
find_package_files_loop(entries, i, base_path, root_path, staged, on_disk, order, dirs) ==
    IF i > Len(entries) THEN [ok |-> TRUE, new_dirs |-> dirs]
    ELSE
    LET subpath == entries[i]
        translated_subpath == translate_to_root(subpath, base_path, root_path)
        exists == try_exists(on_disk, translated_subpath)
    IN  IF ~exists.ok THEN [ok |-> FALSE, new_dirs |-> <<>>]
        ELSE IF ~exists.value
        THEN find_package_files_loop(entries, i + 1, base_path, root_path, staged,
                                     on_disk, order,
                                     Append(dirs, <<subpath, translated_subpath>>))
        ELSE IF is_dir(staged, base_path, subpath)
        THEN LET sub == find_package_files(subpath, base_path, root_path, staged,
                                           on_disk, order)
             IN  IF ~sub.ok THEN [ok |-> FALSE, new_dirs |-> <<>>]
                 ELSE find_package_files_loop(entries, i + 1, base_path, root_path,
                                              staged, on_disk, order,
                                              dirs \o sub.new_dirs)
        ELSE find_package_files_loop(entries, i + 1, base_path, root_path, staged,
                                     on_disk, order, dirs)

find_package_files(path, base_path, root_path, staged, on_disk, order) ==
    find_package_files_loop(read_dir(staged, path, order), 1, base_path, root_path,
                            staged, on_disk, order, <<>>)

\* fs::rename(source, dest): the real filesystem gets the entry and what is
\* below it, the staging directory loses them.
renamed_real(on_disk, staged, source, dest) ==
    [path \in DOMAIN on_disk |->
        IF IsPrefix(dest, path)
        THEN staged[source \o SubSeq(path, Len(dest) + 1, Len(path))]
        ELSE on_disk[path]]

renamed_staging(staged, source) ==
    [path \in DOMAIN staged |-> IF IsPrefix(source, path) THEN "none" ELSE staged[path]]

\* Mutant of deleted: what is below the path stays.
deleted_entry_only(on_disk, target) ==
    [path \in DOMAIN on_disk |-> IF path = target THEN "none" ELSE on_disk[path]]

\* fs::remove_dir_all(target) of a directory, fs::remove_file(target) of a
\* file: the path and what is below it are gone.
deleted(on_disk, target) ==
    [path \in DOMAIN on_disk |-> IF IsPrefix(target, path) THEN "none" ELSE on_disk[path]]

\* The steps of install_package and of remove_package, in order.
InstallSteps == <<"pre_install", "install", "scan", "move", "record", "post_install">>

\* Mutant of RemoveSteps: the paths are deleted first.
RemoveSteps_deletes_first == <<"delete", "pre_remove", "post_remove">>

RemoveSteps == <<"pre_remove", "delete", "post_remove">>

ScriptSteps == {"pre_install", "install", "post_install", "pre_remove", "post_remove"}

Steps(a) == IF a.kind = "Install" THEN InstallSteps ELSE RemoveSteps

\* The number of items of a step: the commands of a script, the pairs to
\* move, the paths to delete.
Items(a, dirs, step) ==
    CASE step \in ScriptSteps -> Len(a.package[step])
      [] step = "move" -> Len(dirs)
      [] step = "delete" -> Len(a.package.package_files)
      [] OTHER -> 1

\* The first step from index k on that has an item.
RECURSIVE Settle(_, _, _)
Settle(a, dirs, k) ==
    IF k > Len(Steps(a)) THEN k
    ELSE IF Items(a, dirs, Steps(a)[k]) = 0 THEN Settle(a, dirs, k + 1)
    ELSE k

Returned_Ok == <<"Ok">>

\* The build of a begins.
Begin(a) ==
    LET k == Settle(a, <<>>, 1)
    IN  /\ self' = Some(a)
        /\ at' = [k |-> k, i |-> 1]
        /\ build_result' = IF k > Len(Steps(a)) THEN Some(Returned_Ok) ELSE None

InBuild == self # None /\ build_result = None

Step == Steps(self[1])[at.k]

\* The item at hand is done: the next item, the next step that has one, or
\* the end of the build, which returns Ok(()).
Proceed(a, dirs) ==
    LET next == IF at.i < Items(a, dirs, Step)
                THEN [k |-> at.k, i |-> at.i + 1]
                ELSE [k |-> Settle(a, dirs, at.k + 1), i |-> 1]
    IN  /\ at' = next
        /\ build_result' = IF next.k > Len(Steps(a)) THEN Some(Returned_Ok) ELSE None

\* Mutant of Fail: the error is dropped and the build goes on.
FailIsIgnored(error) ==
    Proceed(self[1], new_dirs)

\* The item at hand failed: the ? operator returns the error from the build.
Fail(error) ==
    at' = at /\ build_result' = Some(error)

Did(op, status) == [op |-> op, step |-> Step, item |-> at.i, status |-> status]

\* run_commands: the next command of a script is run.  The install command
\* leaves any content in the install directory.
RunCommand ==
    /\ InBuild
    /\ Step \in ScriptSteps
    /\ \E status \in ExitStatuses :
        LET r == run_command(self[1].package[Step][at.i], status)
        IN  /\ ran' = Append(ran, Did("command", status))
            /\ IF r.ok
               THEN /\ Proceed(self[1], new_dirs)
                    /\ staging' \in IF Step = "install"
                                    THEN Trees(InstallDirectory, StagedPaths)
                                    ELSE {staging}
               ELSE /\ Fail(r.error)
                    /\ UNCHANGED staging
    /\ UNCHANGED <<finder, db, command, result, calls, pipeline_vars, equality_vars,
                   stepwise_vars, real, self, new_dirs, real_before>>

\* find_package_files(install_directory, install_directory, "/")
Scan ==
    /\ InBuild
    /\ Step = "scan"
    /\ \E order \in ReadDirOrders :
        LET r == find_package_files(InstallDirectory, InstallDirectory, Root,
                                    staging, real, order)
        IN  IF r.ok
            THEN /\ new_dirs' = r.new_dirs
                 /\ Proceed(self[1], r.new_dirs)
                 /\ ran' = Append(ran, Did("scan", "success"))
            ELSE /\ Fail(IOError("NotADirectory"))
                 /\ ran' = Append(ran, Did("scan", "error"))
                 /\ UNCHANGED new_dirs
    /\ UNCHANGED <<finder, db, command, result, calls, pipeline_vars, equality_vars,
                   stepwise_vars, real, staging, self, real_before>>

\* install_package_files: the next pair is moved.
Move ==
    /\ InBuild
    /\ Step = "move"
    /\ real' = renamed_real(real, staging, new_dirs[at.i][1], new_dirs[at.i][2])
    /\ staging' = renamed_staging(staging, new_dirs[at.i][1])
    /\ ran' = Append(ran, Did("move", "success"))
    /\ Proceed(self[1], new_dirs)
    /\ UNCHANGED <<finder, db, command, result, calls, pipeline_vars, equality_vars,
                   stepwise_vars, self, new_dirs, real_before>>

\* package.package_files = the translated paths of the pairs, as strings.
Record ==
    /\ InBuild
    /\ Step = "record"
    /\ LET a == [self[1] EXCEPT !.package.package_files =
                    [k \in 1..Len(new_dirs) |-> PathString(new_dirs[k][2])]]
       IN  /\ self' = Some(a)
           /\ Proceed(a, new_dirs)
    /\ ran' = Append(ran, Did("record", "success"))
    /\ UNCHANGED <<finder, db, command, result, calls, pipeline_vars, equality_vars,
                   stepwise_vars, real, staging, new_dirs, real_before>>

\* delete_package_files: the next path is deleted, a directory with what is
\* below it; a path that does not exist is an error.
Delete ==
    /\ InBuild
    /\ Step = "delete"
    /\ LET path == PathOf(self[1].package.package_files[at.i])
       IN  IF real[path] = "none"
           THEN /\ Fail(IOError("NotFound"))
                /\ ran' = Append(ran, Did("delete", "error"))
                /\ UNCHANGED real
           ELSE /\ real' = deleted(real, path)
                /\ ran' = Append(ran, Did("delete", "success"))
                /\ Proceed(self[1], new_dirs)
    /\ UNCHANGED <<finder, db, command, result, calls, pipeline_vars, equality_vars,
                   stepwise_vars, staging, self, new_dirs, real_before>>

\* The build of Remove of the package that the build of Install wrote, with
\* the package_files it wrote.
RemoveInstalled ==
    /\ self # None
    /\ self[1].kind = "Install"
    /\ build_result = Some(Returned_Ok)
    /\ Begin([kind |-> "Remove", package |-> LocalOf(self[1].package)])
    /\ UNCHANGED <<finder, db, command, result, calls, pipeline_vars, equality_vars,
                   stepwise_vars, real, staging, new_dirs, ran, real_before>>

\* Lists of up to two paths, as strings.
PackageFilesLists ==
    {[k \in 1..Len(paths) |-> PathString(paths[k])] : paths \in DistinctSeqs(Paths, 2)}

\* The actions whose build is followed: the Install of the package, the
\* Remove of a record of it with any package_files.
BuiltActions ==
    {[kind |-> "Install", package |-> BuiltRemotePackage]}
    \cup {[kind |-> "Remove",
           package |-> [LocalOf(BuiltRemotePackage) EXCEPT !.package_files = list]] :
            list \in PackageFilesLists}

\* Action::build is entered: the install directory was removed and created.
BuildInit ==
    /\ finder = [n \in Names |-> None]
    /\ db = <<>>
    /\ MainAtStart
    /\ NoComparison
    /\ NoResolution
    /\ real \in Trees(Root, Paths)
    /\ real_before = real
    /\ staging = EmptyTree(StagedPaths)
    /\ self \in {Some(a) : a \in BuiltActions}
    /\ at = [k |-> Settle(self[1], <<>>, 1), i |-> 1]
    /\ new_dirs = <<>>
    /\ ran = <<>>
    /\ build_result = None

BuildNext ==
    \/ RunCommand
    \/ Scan
    \/ Move
    \/ Record
    \/ Delete
    \/ RemoveInstalled

BuildSpec == BuildInit /\ [][BuildNext]_vars

FailedStatus(k) == ran[k].op = "command" /\ ran[k].status # "success"

\* The command that entry k of the history ran.
CommandOf(k) == self[1].package[ran[k].step][ran[k].item]

\* C28: when a command of the build of an action exits with a code that is
\* not zero, or without exit status, the build returns CommandFail at once:
\* that command is the last thing the build did (no later command, scan,
\* move or deletion), and what the build had moved into place is still
\* there.
C28_FailedCommandEndsTheBuild ==
    \A k \in 1..Len(ran) :
        FailedStatus(k) =>
            /\ k = Len(ran)
            /\ build_result =
                  Some(CommandFailed(CommandOf(k),
                                     IF ran[k].status = "no_status" THEN NoStatusCode
                                     ELSE SomeCode))
            /\ ran[k].step = "post_install" =>
                  \A j \in 1..Len(new_dirs) :
                      /\ real[new_dirs[j][2]] # "none"
                      /\ real_before[new_dirs[j][2]] = "none"

\* The command after the moves ended without exit status, two entries
\* having been moved into place.
C28_Witness ==
    /\ ran # <<>>
    /\ FailedStatus(Len(ran))
    /\ ran[Len(ran)].step = "post_install"
    /\ ran[Len(ran)].status = "no_status"
    /\ Len(new_dirs) = 2
    /\ build_result = Some(CommandFailed("ldconfig", NoStatusCode))

\* The first of two commands of a script failed.
C28_WitnessEarlierCommand ==
    /\ ran # <<>>
    /\ FailedStatus(Len(ran))
    /\ ran[Len(ran)].step = "pre_install"
    /\ ran[Len(ran)].item = 1

\* The real paths that the build of Install brought into being: they did not
\* exist before, they do now, and the directory they lie in existed before.
NewOnReal ==
    {path \in Paths :
        /\ real_before[path] = "none"
        /\ real[path] # "none"
        /\ Parent(path) = Root \/ real_before[Parent(path)] # "none"}

InstallBuilt == self # None /\ self[1].kind = "Install" /\ build_result = Some(Returned_Ok)

\* The build of Remove that followed the build of Install has returned Ok.
RemoveBuiltAfterInstall ==
    /\ self # None
    /\ self[1].kind = "Remove"
    /\ build_result = Some(Returned_Ok)
    /\ \E k \in 1..Len(ran) : ran[k].op = "scan"

DeletedPaths ==
    {PathString(PathOf(self[1].package.package_files[ran[k].item])) :
        k \in {j \in 1..Len(ran) : ran[j].op = "delete"}}

\* C29: the build of Install(P) sets package_files to exactly the translated
\* real paths of the staged entries that were new on the real filesystem
\* (nothing staged that is left behind was new, nothing else changed); the
\* build of Remove with that package_files deletes exactly those paths, and
\* the real filesystem is then what it was before the build of Install.
C29_InstallThenRemoveRestoresFilesystem ==
    /\ InstallBuilt =>
        /\ Range(self[1].package.package_files) = {PathString(path) : path \in NewOnReal}
        /\ NoDuplicates(self[1].package.package_files)
        /\ \A path \in Paths :
               staging[InstallDirectory \o path] # "none" => real_before[path] # "none"
        /\ \A path \in Paths :
               real[path] # real_before[path] =>
                   \E new \in NewOnReal : IsPrefix(new, path)
    /\ RemoveBuiltAfterInstall =>
        /\ DeletedPaths = Range(self[1].package.package_files)
        /\ real = real_before

\* Install then Remove were built where /usr existed and /usr/bin did not,
\* and /opt did not: /usr/bin and /opt were moved into place and deleted
\* again.
C29_Witness ==
    /\ RemoveBuiltAfterInstall
    /\ real = real_before
    /\ real_before[<<"usr">>] = "dir"
    /\ Range(self[1].package.package_files) =
           {PathString(<<"usr", "bin">>), PathString(<<"opt">>)}
    /\ \E k \in 1..Len(ran) :
           /\ ran[k].op = "move"
           /\ new_dirs[ran[k].item][2] = <<"opt">>
    /\ Len(SelectSeq(ran, LAMBDA d : d.op = "delete")) = 2

InstallWith(reinstall_options) ==
    /\ Returns("install")
    /\ command.reinstall_options = reinstall_options

\* The names reached from the dependency list of n (n itself only when it is
\* reached).
TransitiveDependencies(n) ==
    IF Known(n) THEN CatalogueClosure(Range(RemoteRecord(n).dependencies)) ELSE {}

DirectDependencies(n) == IF Known(n) THEN Range(RemoteRecord(n).dependencies) ELSE {}

\* The list holds a Remove of n and, after it, an Install of n.
RemovedThenInstalled(n) ==
    \E i, j \in 1..Len(Actions) :
        /\ i < j
        /\ Actions[i] = Remove(LocalRecord(n))
        /\ Actions[j] = Install(RemoteRecord(n))

\* Under ForceReinstall every installed transitive dependency of a requested
\* package gets a Remove followed by an Install.
ForceReinstallReachesDependencies ==
    InstallWith("ForceReinstall") =>
        \A k \in 1..Len(command.packages) :
            \A d \in TransitiveDependencies(command.packages[k]) :
                Installed(d) => RemovedThenInstalled(d)

BeingInstalled(n) == Known(n) /\ Contains(Actions, Install(RemoteRecord(n)))

\* C30: the policy given to install_packages is applied to every dependency
\* reached recursively: under ForceReinstall every installed transitive
\* dependency of a requested package gets a Remove followed by an Install,
\* and under Update every installed transitive dependency of a package that
\* is being installed or updated is version-compared.
C30_PolicyReachesTransitiveDependencies ==
    /\ ForceReinstallReachesDependencies
    /\ InstallWith("Update") =>
        \A n \in Names :
            BeingInstalled(n) =>
                \A d \in TransitiveDependencies(n) : Installed(d) => Compared(d)

\* C30, amended: under ForceReinstall every installed transitive dependency
\* of a requested package gets a Remove followed by an Install, and under
\* Update every installed direct dependency of a package that is being
\* installed or updated is version-compared.
C30_PolicyReachesDependenciesOfInstalled ==
    /\ ForceReinstallReachesDependencies
    /\ InstallWith("Update") =>
        \A n \in Names :
            BeingInstalled(n) =>
                \A d \in DirectDependencies(n) : Installed(d) => Compared(d)

\* Under Update a package is installed whose installed dependency is
\* compared and up to date, and that dependency has an installed, outdated
\* dependency of its own that is not looked up.
C30_Witness ==
    /\ InstallWith("Update")
    /\ \E n, d, e \in Names :
           /\ BeingInstalled(n)
           /\ d \in DirectDependencies(n)
           /\ Installed(d) /\ Compared(d) /\ ~RemoteNewer(d)
           /\ e \in DirectDependencies(d)
           /\ Installed(e) /\ Known(e) /\ RemoteNewer(e)
           /\ ~Contains(calls, FindCall(e))

\* ------------------------------------------------------------------------
\* The staging scan (src/src/action.rs 140-161)
\* ------------------------------------------------------------------------

Translated(entry) == translate_to_root(entry, InstallDirectory, Root)

\* The staged directories that lie above an entry, below the install
\* directory.
StagedAbove(entry) ==
    {above \in StagedPaths : IsPrefix(above, entry) /\ above # entry}

\* The scan has just returned its list: nothing was moved yet.
ScanReturned ==
    /\ ran # <<>>
    /\ ran[Len(ran)].op = "scan"
    /\ ran[Len(ran)].status = "success"

\* The scan descended into a staged entry: it is a directory and its
\* translated path exists.
Descended(entry) == staging[entry] = "dir" /\ real[Translated(entry)] # "none"

\* The scan came to a staged entry: it descended into everything above it.
Visited(entry) ==
    /\ staging[entry] # "none"
    /\ \A above \in StagedAbove(entry) : Descended(above)

\* The pairs that the history says were moved.
MovedPairs ==
    {new_dirs[ran[k].item] : k \in {j \in 1..Len(ran) : ran[j].op = "move"}}

\* C31: the pairs that the scan returns are exactly the (staged path,
\* translated path) of the entries it came to whose translated path does
\* not exist, each once; it comes to the entries of the install directory
\* and to those of the staged directories whose translated path exists, and
\* to nothing below a recorded entry; a staged entry whose translated path
\* exists is not recorded, and only recorded pairs are ever moved, to paths
\* that did not exist.
C31_ScanRecordsExactlyTheNewEntries ==
    /\ ScanReturned =>
        /\ Range(new_dirs) =
              {<<entry, Translated(entry)>> :
                  entry \in {e \in StagedPaths :
                                Visited(e) /\ real[Translated(e)] = "none"}}
        /\ NoDuplicates(new_dirs)
        /\ \A k \in 1..Len(new_dirs) :
               \A entry \in StagedPaths :
                   new_dirs[k][1] \in StagedAbove(entry) =>
                       \A j \in 1..Len(new_dirs) : new_dirs[j][1] # entry
        /\ \A entry \in StagedPaths :
               (staging[entry] # "none" /\ real[Translated(entry)] # "none") =>
                   \A k \in 1..Len(new_dirs) :
                       new_dirs[k][1] # entry /\ ~IsPrefix(new_dirs[k][1], entry)
    /\ \A pair \in MovedPairs :
           /\ pair \in Range(new_dirs)
           /\ real_before[pair[2]] = "none"

\* The scan came to a staged file whose translated path exists (/usr), to a
\* staged directory /opt whose translated path exists and into which it
\* descended, and recorded /opt/bin below it.
C31_Witness ==
    /\ ScanReturned
    /\ staging[InstallDirectory \o <<"usr">>] = "file"
    /\ real[<<"usr">>] # "none"
    /\ staging[InstallDirectory \o <<"opt">>] = "dir"
    /\ real[<<"opt">>] = "dir"
    /\ new_dirs = << <<InstallDirectory \o <<"opt", "bin">>, <<"opt", "bin">> >> >>

\* ------------------------------------------------------------------------
\* The build of Remove (src/src/action.rs 125-131, 183-194)
\* ------------------------------------------------------------------------

RemoveBuilding == self # None /\ self[1].kind = "Remove"

\* What the build of Remove did so far, as (step, item) pairs.
RemoveHistory ==
    LET history == SelectSeq(ran, LAMBDA entry : entry.step \in Range(RemoveSteps))
    IN  [k \in 1..Len(history) |-> <<history[k].step, history[k].item>>]

RemoveStatuses ==
    LET history == SelectSeq(ran, LAMBDA entry : entry.step \in Range(RemoveSteps))
    IN  [k \in 1..Len(history) |-> history[k].status]

\* Every item of a step, in order.
ItemsOf(package, step) == [i \in 1..Len(package[step]) |-> <<step, i>>]

\* Everything the build of Remove of a package does when nothing fails.
WholeRemove(package) ==
    ItemsOf(package, "pre_remove")
        \o [i \in 1..Len(package.package_files) |-> <<"delete", i>>]
        \o ItemsOf(package, "post_remove")

StepsDone(step) == {k \in 1..Len(RemoveHistory) : RemoveHistory[k][1] = step}

\* C32: what the build of Remove did is always a beginning of: every
\* pre_remove command, then the deletion of every path of package_files in
\* list order, then every post_remove command; an item that fails is the
\* last one and the build returns an error, so that after a failed pre_remove
\* command no path was deleted and the real filesystem is untouched, and
\* after a failed deletion no later path was deleted and no post_remove
\* command ran; the build returns Ok exactly when everything was done.
C32_RemoveRunsPreRemoveDeletesThenPostRemove ==
    RemoveBuilding =>
        LET whole == WholeRemove(self[1].package)
            done == Len(RemoveHistory)
        IN  /\ done <= Len(whole)
            /\ RemoveHistory = SubSeq(whole, 1, done)
            /\ \A k \in 1..done :
                   RemoveStatuses[k] # "success" =>
                       /\ k = done
                       /\ build_result \notin {None, Some(Returned_Ok)}
                       /\ RemoveHistory[k][1] = "pre_remove" =>
                              /\ StepsDone("delete") = {}
                              /\ StepsDone("post_remove") = {}
                              /\ (\A j \in 1..Len(ran) : ran[j].op # "scan") =>
                                     real = real_before
                       /\ RemoveHistory[k][1] = "delete" =>
                              /\ StepsDone("post_remove") = {}
                              /\ \A j \in StepsDone("delete") :
                                     RemoveHistory[j][2] <= RemoveHistory[k][2]
            /\ build_result = Some(Returned_Ok) <=>
                   (done = Len(whole) /\ \A k \in 1..done : RemoveStatuses[k] = "success")

\* The second of two deletions failed after the pre_remove command and the
\* first deletion: no post_remove command ran.
C32_Witness ==
    /\ RemoveBuilding
    /\ Len(self[1].package.package_files) = 2
    /\ RemoveHistory = << <<"pre_remove", 1>>, <<"delete", 1>>, <<"delete", 2>> >>
    /\ RemoveStatuses = <<"success", "success", "error">>
    /\ build_result = Some(IOError("NotFound"))

\* The pre_remove command failed: nothing was deleted.
C32_WitnessPreRemove ==
    /\ RemoveBuilding
    /\ RemoveStatuses = <<"nonzero">>
    /\ self[1].package.package_files # <<>>
    /\ real = real_before

\* ------------------------------------------------------------------------
\* The worker pool of build_actions (src/src/main.rs 229-265)
\* ------------------------------------------------------------------------

\* The closures that a worker took from the queue.
Taken == {i \in 1..Len(tasks) : tasks[i] # "queued"}

\* A closure is taken from the queue once: it never goes back to the queue
\* and nothing but a queued closure begins to build.
TakenOnce ==
    \A i \in (1..Len(tasks)) \cap (1..Len(tasks')) :
        /\ tasks[i] # "queued" => tasks'[i] # "queued"
        /\ (tasks'[i] = "building" /\ tasks[i] # "building") => tasks[i] = "queued"

\* C33: during the build phase the number of actions whose build is in
\* progress never exceeds the worker count, which is args.build_threads or
\* 3 without it, and every closure is taken from the queue by one worker,
\* once.
C33_BuildsInProgressWithinWorkerCount ==
    /\ [](phase = "build" =>
            /\ Cardinality(Running) <= threads
            /\ threads \in (1..MaxThreads) \cup {DefaultBuildThreads})
    /\ [][TakenOnce]_vars

\* Every worker of a pool of two is building and a third action waits in
\* the queue.
C33_Witness ==
    /\ phase = "build"
    /\ threads = 2
    /\ Cardinality({i \in 1..Len(tasks) : tasks[i] = "building"}) = 2
    /\ Queued # {}

\* The pool has the default worker count and all three workers are building.
C33_WitnessDefault ==
    /\ phase = "build"
    /\ threads = DefaultBuildThreads
    /\ Cardinality({i \in 1..Len(tasks) : tasks[i] = "building"}) = DefaultBuildThreads

\* ------------------------------------------------------------------------
\* update_all_packages and update_packages (src/src/commands.rs 78-129)
\* ------------------------------------------------------------------------

\* The names of the installed packages, in row order.
InstalledNames == [k \in 1..Len(get_all_packages) |-> get_all_packages[k].name]

\* What update_packages returns for the names of all installed packages.
UpdateOfInstalledNames == Returned(update_packages(InstalledNames))

\* C34: update_all_packages returns the action list that update_packages
\* returns for the list of the names of all installed packages.
C34_UpdateAllIsUpdateOfEveryName ==
    Returns("update_all") =>
        /\ UpdateOfInstalledNames.ok
        /\ result.actions = UpdateOfInstalledNames.actions

\* What does hold in every state: both return Ok or both an error, the two
\* lists hold the same actions, and they are the same list whenever the
\* list of update_packages has no action twice.
C34_SameActionsAndSameListWithoutDuplicates ==
    command.type = "update_all" =>
        /\ result.ok = UpdateOfInstalledNames.ok
        /\ result.ok =>
            /\ Range(result.actions) = Range(UpdateOfInstalledNames.actions)
            /\ NoDuplicates(UpdateOfInstalledNames.actions) =>
                   result.actions = UpdateOfInstalledNames.actions

\* An outdated package was updated by both, a dependent of it being
\* installed and up to date: the two lists are the same.
C34_WitnessSameList ==
    /\ Returns("update_all")
    /\ result.actions # <<>>
    /\ result.actions = UpdateOfInstalledNames.actions
    /\ \E n \in Names : Installed(n) /\ DirectDependentNames(n) # <<>>

\* ------------------------------------------------------------------------
\* The order of the builds on the pool (src/src/main.rs 229-265)
\* ------------------------------------------------------------------------

\* The build of action i has begun.
BuildStarted(i) == tasks[i] \in {"building", "failing", "built", "failed"}

\* The build of action i has returned.
BuildFinished(i) == tasks[i] \in {"failing", "built", "failed"}

\* Action i of the list must be built before action j: it is the Remove of
\* the package that j installs and stands earlier in the list, or it is
\* the Install of a dependency of the package that j installs.
BuiltBefore(i, j) ==
    /\ building[j].kind = "Install"
    /\ \/ /\ i < j
          /\ building[i].kind = "Remove"
          /\ building[i].package.name = building[j].package.name
       \/ /\ building[i].kind = "Install"
          /\ Contains(building[j].package.dependencies, building[i].package.name)

\* C35: in the build phase with two or more workers, the build of
\* Install(P) has not begun while the build of an earlier Remove(P), or of
\* the Install of a dependency of P, has not returned.
C35_BuildsRespectTheOrderOfTheList ==
    (phase = "build" /\ threads >= 2) =>
        \A i, j \in 1..Len(tasks) :
            (BuiltBefore(i, j) /\ BuildStarted(j)) => BuildFinished(i)

\* With one worker the builds begin in list order, each after the one
\* before it has returned.
C35_OneWorkerBuildsInListOrder ==
    (phase = "build" /\ threads = 1) =>
        \A i, j \in 1..Len(tasks) :
            (i < j /\ tasks[j] # "queued") => tasks[i] \notin {"queued", "building"}

\* The failing state: the list is [Remove(a), Install(a)] and both builds
\* are in progress on two workers.
C35_RemoveAndInstallBuildAtOnce ==
    /\ phase = "build"
    /\ threads = 2
    /\ Len(building) = 2
    /\ building[1].kind = "Remove" /\ building[1].package.name = "a"
    /\ building[2].kind = "Install" /\ building[2].package.name = "a"
    /\ tasks = <<"building", "building">>

\* ------------------------------------------------------------------------
\* The end of build_actions (src/src/main.rs 229-277)
\* ------------------------------------------------------------------------

\* A step of the pool or of a closure.
PoolStep ==
    \/ TaskStart
    \/ \E i \in 1..Len(tasks) : Build(i)
    \/ \E i \in 1..Len(tasks) : RecordBuildError(i)

\* The pipeline with its scheduling: a free worker takes a queued closure,
\* a build that has begun returns, a closure whose build failed reaches the
\* slot, and thread_pool.join() returns once no closure is queued or active.
PipelineFairSpec ==
    /\ PipelineSpec
    /\ WF_vars(PoolStep)
    /\ WF_vars(JoinBuild)

\* build_actions has returned: main has logged its error and exited, or
\* has gone on to commit_actions.
BuildActionsReturned == phase \in {"commit", "exited"} /\ command # NoCommand /\ result.ok

BuildActionsReturnedOk ==
    BuildActionsReturned /\ (logged_error = <<>> \/ logged_error[1] # "build")

\* C36: build_actions returns, build_actions returns only when no closure
\* is queued or running, it returns an error exactly when the build of some
\* action returned an error, and when it returns Ok every action of the list
\* was built, none skipped.
C36_BuildActionsReturnsAfterEveryBuild ==
    /\ (phase = "build") ~> (phase # "build")
    /\ [](BuildActionsReturned =>
            /\ Queued = {} /\ Running = {}
            /\ BuildActionsReturnedOk <=> (\A i \in 1..Len(tasks) : tasks[i] # "failed")
            /\ BuildActionsReturnedOk => \A i \in 1..Len(tasks) : tasks[i] = "built")

\* build_actions returned an error after one build failed, one that was in
\* progress succeeded and a later action was skipped.
C36_Witness ==
    /\ BuildActionsReturned
    /\ ~BuildActionsReturnedOk
    /\ \E i, j, k \in 1..Len(tasks) :
           tasks[i] = "failed" /\ tasks[j] = "built" /\ tasks[k] = "skipped"

\* build_actions returned Ok after three builds.
C36_WitnessOk ==
    /\ BuildActionsReturnedOk
    /\ phase = "commit"
    /\ Len(tasks) >= 3

\* ------------------------------------------------------------------------
\* The resolver and the store (src/src/commands.rs 34-344)
\* ------------------------------------------------------------------------

\* The calls that read: the lookup of the finder and the three queries of
\* the store.
ReadingCalls ==
    {"find_package", "get_package", "get_all_packages", "get_depending_packages"}

\* C37: after install_packages, remove_packages, update_packages or
\* update_all_packages returned, an action list or an error, the store holds
\* the records it held before the call, in the same rows, and every call the
\* command made was a lookup or a query.
C37_ResolverLeavesTheStoreAsItWas ==
    command # NoCommand =>
        /\ db = db_at_start
        /\ \A k \in 1..Len(calls) : calls[k].fn \in ReadingCalls

\* A command returned an error after it had queried a store of two records
\* with get_package and get_depending_packages.
C37_Witness ==
    /\ command # NoCommand
    /\ ~result.ok
    /\ Len(db) >= 2
    /\ \E j, k \in 1..Len(calls) :
           /\ calls[j].fn = "get_package"
           /\ Installed(calls[j].arg)
           /\ calls[k].fn = "get_depending_packages"

\* A command returned a list after it had queried the store.
C37_WitnessOk ==
    /\ command # NoCommand
    /\ result.ok
    /\ result.actions # <<>>
    /\ \E k \in 1..Len(calls) : calls[k].fn = "get_package" /\ Installed(calls[k].arg)

\* ------------------------------------------------------------------------
\* remove_packages without recursion on a batch (src/src/commands.rs 60-76)
\* ------------------------------------------------------------------------

PlainRemove == command.type = "remove" /\ ~command.recursive

\* The batch names an installed package that has direct dependents, and
\* all of them.
NamedWithItsDependents(n) ==
    /\ Contains(command.packages, n)
    /\ Installed(n)
    /\ DirectDependentNames(n) # <<>>
    /\ Range(DirectDependentNames(n)) \subseteq Range(command.packages)

\* A requested name that remove_package does not accept: it is not
\* installed, or some record of the store depends on it.
Refused(n) == ~Installed(n) \/ DirectDependentNames(n) # <<>>

\* The first index of the batch whose name is refused.
FirstRefused ==
    CHOOSE i \in 1..Len(command.packages) :
        /\ Refused(command.packages[i])
        /\ \A j \in 1..(i - 1) : ~Refused(command.packages[j])

\* C38 as stated: a batch of remove_packages with recursive=false that
\* names a package and all of its direct dependents fails with
\* DependencyBreak for that package.
C38_BatchFailsWithDependencyBreakOfThePackage ==
    PlainRemove =>
        \A n \in Names :
            NamedWithItsDependents(n) =>
                /\ ~result.ok
                /\ result.error[1] = "DependencyBreak"
                /\ result.error[2] = n

\* C38 amended: such a batch fails, whatever the request order, with the
\* error of the first requested name that is not installed or has a direct
\* dependent in the store as it is; for a name with dependents that is
\* DependencyBreak with its direct dependents, whether the batch names them
\* or not.
C38_BatchFailsAtFirstRefusedName ==
    PlainRemove =>
        \A n \in Names :
            NamedWithItsDependents(n) =>
                LET first == command.packages[FirstRefused]
                IN  /\ ~result.ok
                    /\ result.error =
                          IF ~Installed(first) THEN PackageNotInstalled(first)
                          ELSE DependencyBreak(first, DirectDependentNames(first))

\* The batch names the dependent first and then the package it depends on:
\* the dependent is accepted and the package is refused with DependencyBreak.
C38_Witness ==
    /\ PlainRemove
    /\ Len(command.packages) = 2
    /\ NamedWithItsDependents(command.packages[2])
    /\ DirectDependentNames(command.packages[2]) = <<command.packages[1]>>
    /\ ~Refused(command.packages[1])
    /\ result.error = DependencyBreak(command.packages[2], <<command.packages[1]>>)

\* ------------------------------------------------------------------------
\* What the build of Install leaves alone (src/src/action.rs 140-181)
\* ------------------------------------------------------------------------

InstallBuilding == self # None /\ self[1].kind = "Install"

\* The real paths that existed before the build.
ExistedBefore == {path \in Paths : real_before[path] # "none"}

\* C39: during and after the build of Install every real path that existed
\* before is what it was; the move at hand targets a path that does not
\* exist, and did not when the staging directory was scanned; no path that
\* existed is in the list of the scan or in package_files; and no path of
\* the list lies below another path of the list.
C39_InstallLeavesExistingPathsAlone ==
    InstallBuilding =>
        /\ \A path \in ExistedBefore : real[path] = real_before[path]
        /\ (InBuild /\ Step = "move") =>
               /\ real[new_dirs[at.i][2]] = "none"
               /\ real_before[new_dirs[at.i][2]] = "none"
        /\ \A k \in 1..Len(new_dirs) : new_dirs[k][2] \notin ExistedBefore
        /\ \A k \in 1..Len(self[1].package.package_files) :
               PathOf(self[1].package.package_files[k]) \notin ExistedBefore
        /\ \A j, k \in 1..Len(new_dirs) :
               j # k => ~IsPrefix(new_dirs[j][2], new_dirs[k][2])

\* The build of Install returned Ok where /usr and /usr/bin existed and
\* /opt did not, the package having staged usr/bin and opt: /usr/bin is what
\* it was, its staged counterpart was left behind, and package_files is
\* /opt alone.
C39_Witness ==
    /\ InstallBuilt
    /\ real_before[<<"usr", "bin">>] = "file"
    /\ real[<<"usr", "bin">>] = "file"
    /\ staging[InstallDirectory \o <<"usr", "bin">>] = "dir"
    /\ real_before[<<"opt">>] = "none"
    /\ real[<<"opt", "bin">>] = "file"
    /\ self[1].package.package_files = <<PathString(<<"opt">>)>>

\* ------------------------------------------------------------------------
\* The resolver call by call: install_packages, remove_packages and
\* update_packages with every call they make to install_package,
\* remove_package and get_depending_recursive (src/src/commands.rs 34-344)
\* ------------------------------------------------------------------------

\* The deepest nesting of resolver calls that is followed.
MaxCalls == 8

InstallPackagesCall(packages, reinstall_options) ==
    [fn |-> "install_packages", packages |-> packages,
     reinstall_options |-> reinstall_options]

InstallPackageCall(package_name, reinstall_options) ==
    [fn |-> "install_package", name |-> package_name,
     reinstall_options |-> reinstall_options]

RemovePackagesCall(package_names, recursive) ==
    [fn |-> "remove_packages", packages |-> package_names, recursive |-> recursive]

RemovePackageCall(package_name, recursive) ==
    [fn |-> "remove_package", name |-> package_name, recursive |-> recursive]

GetDependingRecursiveCall(package_name, level, max_level) ==
    [fn |-> "get_depending_recursive", name |-> package_name, level |-> level,
     max_level |-> max_level]

UpdatePackagesCall(package_names) ==
    [fn |-> "update_packages", packages |-> package_names]

\* A call that has reached a loop: the call, what it loops over, the index
\* it is at, what it has collected, the package it holds, and the stage of
\* a call that makes two kinds of calls.
CallFrame(call, children, acc, package, stage) ==
    [call |-> call, children |-> children, i |-> 1, acc |-> acc,
     package |-> package, stage |-> stage]

Returns_(value) == [value |-> Some(value), frame |-> None]

Reaches(frame) == [value |-> None, frame |-> Some(frame)]

\* A function from its entry to its first call of another resolver
\* function: it returns a value or reaches a loop with a frame.
Enter(call) ==
    CASE call.fn = "install_packages" ->
            Reaches(CallFrame(call, call.packages, <<>>, None, "loop"))
      [] call.fn = "install_package" ->
            LET head == install_package_head(call.name, call.reinstall_options)
            IN  IF head.frame = None THEN Returns_(head.value[1])
                ELSE Reaches(CallFrame(call, head.frame[1].package.dependencies,
                                       head.frame[1].actions,
                                       Some(head.frame[1].package), "loop"))
      [] call.fn = "remove_packages" ->
            Reaches(CallFrame(call, call.packages, <<>>, None, "loop"))
      [] call.fn = "remove_package" ->
            LET local == get_package(call.name)
            IN  IF local = None THEN Returns_(Err(PackageNotInstalled(call.name), <<>>))
                ELSE Reaches(CallFrame(call, <<>>, <<>>, local, "get_depending"))
      [] call.fn = "get_depending_recursive" ->
            IF call.level = call.max_level THEN Returns_(Ok(<<>>, <<>>))
            ELSE Reaches(CallFrame(call, get_depending_packages(call.name), <<>>,
                                   None, "loop"))
      [] call.fn = "update_packages" ->
            Reaches(CallFrame(call, call.packages, <<>>, None, "get_depending"))

\* remove_package found dependents and recursive is false.
Breaks(frame) ==
    /\ frame.call.fn = "remove_package"
    /\ frame.stage = "loop"
    /\ frame.children # <<>>
    /\ ~frame.call.recursive

\* The frame has a call to make.
HasCall(frame) ==
    /\ ~Breaks(frame)
    /\ \/ frame.call.fn = "remove_package" /\ frame.stage = "get_depending"
       \/ frame.i <= Len(frame.children)

\* The call that the frame makes next.
NextCall(frame) ==
    LET call == frame.call
        child == frame.children[frame.i]
    IN  CASE call.fn = "install_packages" ->
                InstallPackageCall(child, call.reinstall_options)
          [] call.fn = "install_package" ->
                InstallPackageCall(child, call.reinstall_options)
          [] call.fn = "remove_packages" ->
                RemovePackageCall(child, call.recursive)
          [] call.fn = "remove_package" ->
                IF frame.stage = "get_depending"
                THEN GetDependingRecursiveCall(call.name, 0, 1)
                ELSE RemovePackageCall(child.name, call.recursive)
          [] call.fn = "get_depending_recursive" ->
                GetDependingRecursiveCall(child.name, call.level + 1, call.max_level)
          [] call.fn = "update_packages" ->
                IF frame.stage = "get_depending"
                THEN GetDependingRecursiveCall(child, 0, -1)
                ELSE InstallPackagesCall(
                         Append([k \in 1..Len(frame.package) |-> frame.package[k].name],
                                child),
                         "Update")

\* Mutant of Absorb: the loop of get_depending_recursive stays at the
\* dependent it is at.
Absorb_stays_at_dependent(frame, value) ==
    LET call == frame.call
    IN  CASE call.fn \in {"install_packages", "install_package", "remove_packages"} ->
                [frame EXCEPT !.acc = LinkedHashSetExtend(@, value), !.i = @ + 1]
          [] call.fn = "remove_package" ->
                IF frame.stage = "get_depending"
                THEN [frame EXCEPT !.children = value, !.stage = "loop"]
                ELSE [frame EXCEPT !.acc = LinkedHashSetExtend(@, value), !.i = @ + 1]
          [] call.fn = "get_depending_recursive" ->
                [frame EXCEPT
                    !.acc = LinkedHashSetInsert(LinkedHashSetExtend(@, value),
                                                frame.children[frame.i])]
          [] call.fn = "update_packages" ->
                IF frame.stage = "get_depending"
                THEN [frame EXCEPT !.package = value, !.stage = "loop"]
                ELSE [frame EXCEPT !.acc = @ \o value, !.i = @ + 1,
                                   !.stage = "get_depending"]

\* The frame after the call it made returned Ok(value).
Absorb(frame, value) ==
    LET call == frame.call
    IN  CASE call.fn \in {"install_packages", "install_package", "remove_packages"} ->
                [frame EXCEPT !.acc = LinkedHashSetExtend(@, value), !.i = @ + 1]
          [] call.fn = "remove_package" ->
                IF frame.stage = "get_depending"
                THEN [frame EXCEPT !.children = value, !.stage = "loop"]
                ELSE [frame EXCEPT !.acc = LinkedHashSetExtend(@, value), !.i = @ + 1]
          [] call.fn = "get_depending_recursive" ->
                [frame EXCEPT
                    !.acc = LinkedHashSetInsert(LinkedHashSetExtend(@, value),
                                                frame.children[frame.i]),
                    !.i = @ + 1]
          [] call.fn = "update_packages" ->
                IF frame.stage = "get_depending"
                THEN [frame EXCEPT !.package = value, !.stage = "loop"]
                ELSE [frame EXCEPT !.acc = @ \o value, !.i = @ + 1,
                                   !.stage = "get_depending"]

\* What the frame returns when it has no call left to make.
ReturnValue(frame) ==
    LET call == frame.call
    IN  CASE call.fn = "install_package" ->
                Ok(LinkedHashSetInsert(frame.acc, Install(frame.package[1])), <<>>)
          [] call.fn = "remove_package" ->
                IF Breaks(frame)
                THEN Err(DependencyBreak(call.name,
                                         [k \in 1..Len(frame.children) |->
                                             frame.children[k].name]), <<>>)
                ELSE Ok(LinkedHashSetInsert(frame.acc, Remove(frame.package[1])), <<>>)
          [] OTHER -> Ok(frame.acc, <<>>)

\* A call returned value to the calls in frames: an error goes through
\* every caller and out of the command, Ok is absorbed by the innermost
\* caller; without a caller the command returns.
RECURSIVE Deliver(_, _)
Deliver(frames, value) ==
    IF frames = <<>> THEN [stack |-> <<>>, returned |-> Some(Returned(value))]
    ELSE IF ~value.ok THEN Deliver(Front(frames), value)
    ELSE [stack |-> Append(Front(frames), Absorb(frames[Len(frames)], value.actions)),
          returned |-> None]

\* A call is entered from the calls in frames.
Entered(frames, call) ==
    LET head == Enter(call)
    IN  IF head.frame = None
        THEN Delivered(Deliver(frames, head.value[1]))
        ELSE Delivered([stack |-> Append(frames, head.frame[1]), returned |-> None])

\* The batches that are followed: one name each (update_packages makes
\* install_packages loop over the dependents of the name and the name).
OneNameBatches == {<<n>> : n \in Names}

\* The commands that are followed.
ResolverCommands ==
    {[type |-> "install", packages |-> packages, reinstall_options |-> reinstall_options,
      recursive |-> FALSE] :
        packages \in OneNameBatches, reinstall_options \in ReinstallOptions}
    \cup {[type |-> "remove", packages |-> packages, reinstall_options |-> "Ignore",
           recursive |-> recursive] : packages \in OneNameBatches, recursive \in BOOLEAN}
    \cup {[type |-> "update", packages |-> packages, reinstall_options |-> "Update",
           recursive |-> FALSE] : packages \in OneNameBatches}

CallOf(c) ==
    CASE c.type = "install" -> InstallPackagesCall(c.packages, c.reinstall_options)
      [] c.type = "remove" -> RemovePackagesCall(c.packages, c.recursive)
      [] c.type = "update" -> UpdatePackagesCall(c.packages)

\* main calls install_packages, remove_packages or update_packages.
CallCommand ==
    /\ command = NoCommand
    /\ resolution = "idle"
    /\ \E c \in ResolverCommands :
        /\ command' = c
        /\ Entered(<<>>, CallOf(c))
    /\ UNCHANGED <<finder, db, calls, pipeline_vars, equality_vars, build_vars>>

\* The innermost call makes its next call.
MakeCall ==
    /\ resolution = "resolving"
    /\ Len(stack) < MaxCalls
    /\ HasCall(stack[Len(stack)])
    /\ Entered(stack, NextCall(stack[Len(stack)]))
    /\ UNCHANGED <<finder, db, command, calls, pipeline_vars, equality_vars, build_vars>>

\* The innermost call has no call left to make and returns.
ReturnCall ==
    /\ resolution = "resolving"
    /\ ~HasCall(stack[Len(stack)])
    /\ Delivered(Deliver(Front(stack), ReturnValue(stack[Len(stack)])))
    /\ UNCHANGED <<finder, db, command, calls, pipeline_vars, equality_vars, build_vars>>

\* The stores whose rows are in the order of the names.
OrderedStores(f) ==
    {s \in Stores(f) :
        \A j, k \in 1..Len(s) : j < k => NameIndex(s[j].name) < NameIndex(s[k].name)}

\* The acyclic worlds: a dependency list names earlier names only, and the
\* records of the store carry the dependency lists of the catalogue.
RecursionInit ==
    /\ finder \in Catalogues
    /\ db \in OrderedStores(finder)
    /\ MainAtStart
    /\ NoDetail

RecursionNext ==
    \/ CallCommand
    \/ MakeCall
    \/ ReturnCall

\* Every call that is in progress goes on: the resolver is one thread.
RecursionSpec == RecursionInit /\ [][RecursionNext]_vars /\ WF_vars(RecursionNext)

\* What the command returns when it is computed all at once.
ResolvedAtOnce ==
    CASE command.type = "install" ->
            Returned(install_packages(command.packages, command.reinstall_options))
      [] command.type = "remove" ->
            Returned(remove_packages(command.packages, command.recursive))
      [] command.type = "update" -> Returned(update_packages(command.packages))

\* The call by call resolver returns what the resolver computed at once
\* returns.
RecursionAgrees == resolution = "returned" => result = ResolvedAtOnce

\* The calls in progress that are calls of one function for one name.
CallsFor(fn, n) ==
    {k \in 1..Len(stack) : stack[k].call.fn = fn /\ stack[k].call.name = n}

RecursiveFunctions == {"install_package", "remove_package", "get_depending_recursive"}

\* C40: over a store and a catalogue without dependency cycle, every
\* install_packages, remove_packages (recursive or not) and update_packages
\* that is called returns, an action list or an error; while it runs no
\* function is called for a name inside a call of that function for the
\* same name, so that the calls in progress never nest deeper than one batch
\* call, one call of install_packages and one call per name.
C40_ResolverReturnsOnAcyclicGraphs ==
    /\ (resolution = "resolving") ~> (resolution = "returned")
    /\ [](resolution = "resolving" =>
            /\ \A fn \in RecursiveFunctions, n \in Names :
                   Cardinality(CallsFor(fn, n)) <= 1
            /\ Len(stack) <= Cardinality(Names) + 2
            /\ Len(stack) < MaxCalls)
    /\ [](resolution = "returned" => stack = <<>> /\ result = ResolvedAtOnce)

\* update_packages is inside get_depending_recursive for a dependent of a
\* dependent of the requested name, three calls deep.
C40_Witness ==
    /\ resolution = "resolving"
    /\ command.type = "update"
    /\ Len(stack) = 4
    /\ \A k \in 2..4 : stack[k].call.fn = "get_depending_recursive"
    /\ stack[4].call.level = 2

\* A recursive removal returned the Remove of three packages.
C40_WitnessRemove ==
    /\ resolution = "returned"
    /\ command.type = "remove"
    /\ command.recursive
    /\ result.ok
    /\ Len(result.actions) = 3

\* install_packages is inside install_package for a dependency of a
\* dependency of the requested name.
C40_WitnessInstall ==
    /\ resolution = "resolving"
    /\ command.type = "install"
    /\ Len(stack) = 4
    /\ stack[4].call.fn = "install_package"

====
